---- MODULE Spec2Model ----
(***************************************************************************)
(* Streaming analysis pipeline of CodeForge-Studio                         *)
(* (src/backend/app/analyzer.py, class CodeForgeAnalyzer): cache lookup,   *)
(* provider streaming with a retry loop, event emission, cache write.      *)
(*                                                                         *)
(* One invocation of stream_analysis is modelled as a generator that is    *)
(* resumed step by step: each action runs the code from one suspension     *)
(* point (a yield or an await) to the next.  The inner generator           *)
(* _stream_openai_analysis is driven synchronously by the `async for` of   *)
(* stream_analysis, which relays every inner event, so both share one      *)
(* program counter.  Text is a sequence of characters; a provider fragment *)
(* is a one-character text (or the empty text, which the code skips).      *)
(*                                                                         *)
(* `return content_buffer` at analyzer.py:140 is read as the end of the    *)
(* inner generator: its value is never used by the caller (Python itself   *)
(* rejects a `return` with a value in an async generator).  Rendering the  *)
(* prompt (analyzer.py:210-213, template not among the sources) is taken   *)
(* to succeed; the prompt only feeds the provider, whose behaviour is a    *)
(* nondeterministic choice here.                                           *)
(*                                                                         *)
(* Three specifications share the generator's actions and differ in who    *)
(* consumes the events:                                                    *)
(*   Spec      a consumer that takes every event of every invocation;      *)
(*   SpecRest  POST /api/analyze (api_routes.py) with analyze_blocking,    *)
(*             which stops at the first event of type error;               *)
(*   SpecWs    one /ws/stream connection (websocket_routes.py), whose      *)
(*             handler passes every event to ConnectionManager.send_message*)
(*             and whose client may go away.                               *)
(* Under SpecRest and SpecWs the generator takes a step only when its      *)
(* consumer has taken the last event and asks for the next one.            *)
(* Three more specifications look at the cache store:                      *)
(*   SpecClear POST /api/cache/clear beside analyses that write the cache; *)
(*   SpecPair  two concurrent invocations of stream_analysis sharing the   *)
(*             Redis key space;                                            *)
(*   SpecTtl   the passage of time and the expiry of cache entries.        *)
(* SpecWsShort and SpecWsLocal are SpecWs with short provider streams and  *)
(* with messages that do not name the openai backend.  Two specifications  *)
(* stand beside the generator:                                             *)
(*   SpecManager   several /ws/stream connections on one ConnectionManager;*)
(*   SpecProblems  the problem-record layer (src/app/api/api_v1/endpoints/ *)
(*                 problems.py) with its background analysis tasks.        *)
(***************************************************************************)
EXTENDS Integers, Sequences, FiniteSets, TLC

\* ---------------------------------------------------------------- bounds
\* chunks pulled from a failure-prone provider in one behaviour
MaxFrags == 1
\* provider failures in one behaviour
MaxFailures == 3
\* chunks of the one long stream a never-failing provider hands out
MaxSteady == 10
\* invocations of stream_analysis in one behaviour
MaxInvocations == 2
\* requests to POST /api/analyze in one behaviour
MaxRequests == 2
\* texts a websocket client sends in one behaviour
MaxMessages == 2
MaxClears == 2

\* ------------------------------------------------------- program constants
max_retries == 3
InitialRetryDelay == 1
ProgressEvery == 10
HexDigits == 16
title_min_length == 3
title_max_length == 200
description_min_length == 50
description_max_length == 5000

\* ------------------------------------------------------------ input sets
Titles == {"t1", "t2"}
Descriptions == {"d1", "d2"}
Backends == {"openai", "ollama", "other"}
Chars == {"a", "b"}
FailureClasses == {"RateLimitError", "APITimeoutError", "Exception"}
ProviderProfiles == {"flaky", "steady"}

VARIABLES
    redis_client,        \* self.redis_client: "connected" or "none"; "closed"
                         \* once close() was called on it
    store,               \* the Redis key space: key -> serialized value
    expires,             \* per stored key: seconds it has left (NoExpiry: no limit)
    now,                 \* seconds since the process started
    writtenAt,           \* per key ever written: `now` at its last write
    elapses,             \* passages of time so far
    pc,                  \* position of the stream_analysis generator
    problem_title, problem_description, backend,
    events,              \* the events yielded so far by this invocation
    produced,            \* those of them _stream_openai_analysis yielded
    attempt,             \* loop variable of `for attempt in range(max_retries)`
    retry_delay,
    inner_buffer,        \* content_buffer of _stream_openai_analysis
    chunk_count,
    content_buffer,      \* content_buffer of stream_analysis
    exc,                 \* the exception being handled, "" when none
    cached_result,       \* what check_cache returned (<<>> for None)
    profile,             \* behaviour of the provider in this invocation
    pulled,              \* chunks pulled from a failure-prone provider so far
    steadyPulled,        \* chunks pulled from the never-failing provider so far
    failures,            \* provider failures so far
    providerCalls,       \* chat.completions.create calls of this invocation
    attemptLog,          \* per attempt: [frags, outcome]
    sleeps,              \* delays passed to asyncio.sleep, in order
    storeAtStart,        \* the store when the invocation began
    lookup,              \* outcome of check_cache: "", "noclient", "error", "miss", "hit"
    lookupKey,           \* key check_cache read (NoKey when none)
    writes,              \* [key, value] written by cache_result, in order
    writeOutcome,        \* "", "noclient", "error", "written"
    invocations,
    \* POST /api/analyze and analyze_blocking
    request,             \* the validated ProblemAnalysisRequest (<<>> when none)
    bpc,                 \* position of analyze_blocking
    bbuffer,             \* content_buffer of analyze_blocking
    bseen,               \* events of the stream the `async for` has taken
    blookup,             \* outcome of the check_cache call of analyze_blocking
    response,            \* the HTTP response (NoResponse while none)
    requests,            \* requests received so far
    \* POST /api/cache/clear
    cleared,             \* the answers of clear_cache so far, in order
    \* two concurrent invocations of stream_analysis
    peers,               \* per invocation: [pc, description, content_buffer]
    writeOrder,          \* the invocations whose cache write succeeded, in order
    \* /ws/stream: one connection and its handler
    wpc,                 \* position of websocket_stream_endpoint
    socket,              \* the client's end: "none", "open", "closed"
    active,              \* client_id in manager.active_connections
    message,             \* the validated WebSocketMessage (<<>> when none)
    wseen,               \* events of the stream passed to send_message
    replies,             \* texts delivered to the client since the last receive
    received,            \* texts received so far
    closedAt,            \* events yielded when the client closed (NoInt: open)
    \* /ws/stream: several connections and the ConnectionManager
    handlers,            \* per websocket object: its handler, address and client
    active_connections,  \* manager.active_connections: client id -> websocket
    delivered,           \* <<handler, websocket>>: a text of that handler was
                         \* written to that websocket
    \* the problem-record layer (src/app/api/api_v1/endpoints/problems.py)
    problems_db,         \* id -> problem record
    analysis_sessions_db,\* id -> analysis session
    problem_counter,
    session_counter,
    providers,           \* ai_service.providers: the configured provider names
    tasks,               \* the background tasks added so far, in order
    assigned,            \* the ids create_problem has returned, in order
    presponse            \* the status code of the last answer of the
                         \* analyze trigger

vars == <<redis_client, store, expires, now, writtenAt, elapses, pc, problem_title, problem_description, backend,
          events, produced, attempt, retry_delay, inner_buffer, chunk_count,
          content_buffer, exc, cached_result, profile, pulled, steadyPulled,
          failures, providerCalls,
          attemptLog, sleeps, storeAtStart, lookup, lookupKey, writes,
          writeOutcome, invocations,
          request, bpc, bbuffer, bseen, blookup, response, requests,
          cleared, peers, writeOrder,
          wpc, socket, active, message, wseen, replies, received, closedAt,
          handlers, active_connections, delivered,
          problems_db, analysis_sessions_db, problem_counter, session_counter,
          providers, tasks, assigned, presponse>>

\* ---------------------------------------------------------------- events
\* an Optional[int] field that is None
NoInt == -1
NoProgress == NoInt
\* the time to live of a key that has none
NoExpiry == NoInt
NoArg == NoInt

StatusEvent(msg, arg, progress) ==
    [type |-> "status", message |-> msg, arg |-> arg, progress |-> progress,
     content |-> <<>>, error_code |-> ""]

DeltaEvent(content) ==
    [type |-> "delta", message |-> "", arg |-> NoArg, progress |-> NoProgress,
     content |-> content, error_code |-> ""]

CompleteEvent ==
    [type |-> "complete", message |-> "", arg |-> NoArg, progress |-> 100,
     content |-> <<>>, error_code |-> ""]

ErrorEvent(msg, arg, code) ==
    [type |-> "error", message |-> msg, arg |-> arg, progress |-> NoProgress,
     content |-> <<>>, error_code |-> code]

\* ------------------------------------------------------------ responses
\* the response of POST /api/analyze
NoResponse ==
    [status |-> 0, analysis |-> <<>>, cached |-> FALSE, detail |-> <<>>]

\* ------------------------------------------------------------- cache key
\* hashlib.sha256(text.encode()).hexdigest(), tabulated for the texts of the
\* model: the leading 18 hexadecimal digits of the real digests.
Sha256Hex(text) ==
    CASE text = "d1" -> <<"8", "b", "5", "3", "6", "3", "9", "f", "1", "5", "2", "c", "8", "f", "c", "6", "e", "f">>
      [] text = "d2" -> <<"e", "7", "8", "8", "1", "0", "3", "e", "e", "1", "5", "3", "1", "8", "f", "c", "d", "2">>
      [] text = "t1" -> <<"6", "2", "8", "b", "4", "9", "d", "9", "6", "d", "c", "d", "e", "9", "7", "a", "4", "3">>
      [] text = "t2" -> <<"c", "4", "4", "4", "7", "4", "0", "3", "8", "d", "4", "5", "9", "e", "4", "0", "e", "4">>
      [] text = " short" -> <<"5", "0", "9", "2", "0", "c", "8", "7", "f", "b", "5", "d", "3", "1", "5", "2", "a", "4">>
      [] text = "d1 " -> <<"3", "0", "8", "2", "e", "2", "5", "5", "7", "4", "9", "f", "e", "7", "d", "f", "3", "4">>

_generate_cache_key(description) ==
    <<"analysis:", SubSeq(Sha256Hex(description), 1, HexDigits)>>

\* json.dumps(cache_data) / json.loads(cached_data)
JsonDumps(data) == [kind |-> "json", data |-> data]
JsonLoads(value) == value.data
\* whether json.loads(value) returns instead of raising
JsonParses(value) == value.kind = "json"

CacheData(analysis) == [analysis |-> analysis, tokens_used |-> "null"]

NoKey == <<>>

\* config.py line 21: cache_ttl, 7 days in seconds
cache_ttl == 604800

\* cache_result line 75: the expiry handed to setex
ExpiryArg_None == NoExpiry
ExpiryArg == cache_ttl

\* redis setex(key, ttl, value): the key space with the value stored under
\* the key, replacing what was there
Setex_Appends(space, key, value) ==
    IF key \in DOMAIN space
      THEN (key :> JsonDumps([value.data EXCEPT
                                 !.analysis = space[key].data.analysis \o @]))
               @@ space
      ELSE (key :> value) @@ space
Setex(space, key, value) == (key :> value) @@ space
EmptyStore == [k \in {} |-> JsonDumps(CacheData(<<>>))]

\* ------------------------------------------------- pieces of the handlers
\* stream_analysis: the argument of check_cache / of cache_result
CacheLookupArg_Title == problem_title
CacheLookupArg == problem_description
CacheWriteArg_Title == problem_title
CacheWriteArg == problem_description

\* stream_analysis: `if chunk.get("type") == delta: content_buffer += ...`
Accumulate(buffer, event) ==
    IF event.type = "delta" THEN buffer \o event.content ELSE buffer

\* _stream_openai_analysis: `if attempt < max_retries - 1`
RetryAllowed_StopsEarly(a) == a < max_retries - 2
RetryAllowed(a) == a < max_retries - 1

\* _stream_openai_analysis: `retry_delay *= 2`
NextDelay_NoDoubling(d) == d
NextDelay(d) == d * 2

\* _stream_openai_analysis: `"progress": 10 + (attempt * 5)`
ConnectProgress_Flat(a) == 10
ConnectProgress(a) == 10 + (a * 5)

Min(x, y) == IF x < y THEN x ELSE y

\* _stream_openai_analysis: `min(20 + (chunk_count // 10) * 5, 90)`
PeriodicProgress(n) == Min(20 + (n \div ProgressEvery) * 5, 90)

\* error_code of the event yielded for a failure that is retried
RetryCode(class) ==
    CASE class = "RateLimitError" -> "RATE_LIMIT"
      [] class = "APITimeoutError" -> "TIMEOUT"
      [] OTHER -> "API_ERROR"

RetryMessage(class) ==
    CASE class = "RateLimitError" -> "Rate limit reached. Retrying in {retry_delay} seconds..."
      [] class = "APITimeoutError" -> "Request timeout. Retrying in {retry_delay} seconds..."
      [] OTHER -> "API error. Retrying in {retry_delay} seconds..."

\* error_code of the event yielded for the failure of the last attempt
FinalCode(class) ==
    CASE class = "RateLimitError" -> "RATE_LIMIT_EXCEEDED"
      [] class = "APITimeoutError" -> "TIMEOUT_EXCEEDED"
      [] OTHER -> "API_ERROR_FINAL"

FinalMessage(class) ==
    CASE class = "RateLimitError" -> "Rate limit exceeded. Please try again later."
      [] class = "APITimeoutError" -> "Request timed out after multiple attempts."
      [] OTHER -> "API error: {e}"

\* _stream_openai_analysis: the bare `raise` that ends each final branch
AfterFinalError_Swallowed == "after_stream"
AfterFinalError_Escapes == "raised"
AfterFinalError == "reraise"

\* stream_analysis: `if content_buffer:` before cache_result
ShouldCache(buffer) == buffer # <<>>

\* stream_analysis: the content of the delta event of the cache-hit path
CachedContent(result) == result.analysis

\* stream_analysis: the branch on `backend` after a cache miss
Dispatch_OllamaAsOpenAI(b) ==
    CASE b \in {"openai", "ollama"} -> "connect"
      [] OTHER -> "unsupported"
Dispatch_OtherAsOllama(b) ==
    CASE b = "openai" -> "connect"
      [] OTHER -> "ollama"
Dispatch(b) ==
    CASE b = "openai" -> "connect"
      [] b = "ollama" -> "ollama"
      [] OTHER -> "unsupported"

\* check_cache (lines 44-58): the outcomes the call can have for a
\* description, as [lookup, key, result]; result is <<>> for None.  Without a
\* client nothing is read; with one, the get may raise, the stored value may
\* fail to parse (both are caught at line 55), or the parsed value is returned.
check_cache(description) ==
    IF redis_client = "none"
      THEN {[lookup |-> "noclient", key |-> NoKey, result |-> <<>>]}
      ELSE LET key == _generate_cache_key(description)
           IN {[lookup |-> "error", key |-> key, result |-> <<>>]}
              \cup (IF key \notin DOMAIN store
                      THEN {[lookup |-> "miss", key |-> key, result |-> <<>>]}
                    ELSE IF JsonParses(store[key])
                      THEN {[lookup |-> "hit", key |-> key,
                             result |-> <<JsonLoads(store[key])>>]}
                    ELSE {[lookup |-> "unreadable", key |-> key, result |-> <<>>]})

\* cache_result (lines 80-81): where stream_analysis goes on after a setex
\* that raised: the exception is logged, the call returns
AfterCacheWriteError_Propagated == "reraise"
AfterCacheWriteError == "done"

\* ------------------------------------------------------------------ state
\* the analyzer and its stream_analysis generator before any call
InitAnalyzer ==
    /\ redis_client \in {"connected", "none"}
    /\ pc = "idle"
    /\ problem_title = ""
    /\ problem_description = ""
    /\ backend = ""
    /\ events = <<>>
    /\ produced = <<>>
    /\ attempt = 0
    /\ retry_delay = InitialRetryDelay
    /\ inner_buffer = <<>>
    /\ chunk_count = 0
    /\ content_buffer = <<>>
    /\ exc = ""
    /\ cached_result = <<>>
    /\ profile = "flaky"
    /\ pulled = 0
    /\ steadyPulled = 0
    /\ failures = 0
    /\ providerCalls = 0
    /\ attemptLog = <<>>
    /\ sleeps = <<>>
    /\ storeAtStart = EmptyStore
    /\ lookup = ""
    /\ lookupKey = NoKey
    /\ writes = <<>>
    /\ writeOutcome = ""
    /\ invocations = 0

\* the two concurrent invocations
PeerIds == {1, 2}
IdlePeer == [pc |-> "idle", description |-> "", content_buffer |-> <<>>]

\* the process starts: what the store holds was written just before
InitClock ==
    /\ expires = [k \in DOMAIN store |-> ExpiryArg]
    /\ now = 0
    /\ writtenAt = [k \in DOMAIN store |-> 0]
    /\ elapses = 0

\* no request has been received
InitRestIdle ==
    /\ request = <<>>
    /\ bpc = "idle"
    /\ bbuffer = <<>>
    /\ bseen = 0
    /\ blookup = ""
    /\ response = NoResponse
    /\ requests = 0
    /\ cleared = <<>>

\* no websocket connection exists
InitWsIdle ==
    /\ wpc = "none"
    /\ socket = "none"
    /\ active = FALSE
    /\ message = <<>>
    /\ wseen = 0
    /\ replies = <<>>
    /\ received = 0
    /\ closedAt = NoInt

\* no concurrent pair of invocations exists
InitPairIdle ==
    /\ peers = [i \in PeerIds |-> IdlePeer]
    /\ writeOrder = <<>>

\* no websocket object exists, the manager's map is empty
InitManagerIdle ==
    /\ handlers = <<>>
    /\ active_connections = <<>>
    /\ delivered = {}

\* the module globals of problems.py as they are at import (lines 19-22)
InitProblemsIdle ==
    /\ problems_db = <<>>
    /\ analysis_sessions_db = <<>>
    /\ problem_counter = 0
    /\ session_counter = 0
    /\ tasks = <<>>
    /\ assigned = <<>>
    /\ presponse = <<>>

InitLayersIdle ==
    /\ InitManagerIdle
    /\ InitProblemsIdle
    /\ providers = {}

InitCallers == InitRestIdle /\ InitWsIdle /\ InitPairIdle /\ InitLayersIdle

Init ==
    /\ InitAnalyzer
    /\ store = EmptyStore
    /\ InitClock
    /\ InitCallers

restVars == <<request, bpc, bbuffer, bseen, blookup, response, requests>>
clearVars == <<cleared>>
pairVars == <<peers, writeOrder>>
managerVars == <<handlers, active_connections, delivered>>
problemVars ==
    <<problems_db, analysis_sessions_db, problem_counter, session_counter,
      providers, tasks, assigned, presponse>>
layerVars == <<managerVars, problemVars>>
wsVars == <<wpc, socket, active, message, wseen, replies, received, closedAt>>
callerVars == <<restVars, clearVars, wsVars, pairVars, layerVars>>
nonRestVars == <<clearVars, wsVars, pairVars, layerVars>>
nonWsVars == <<restVars, clearVars, pairVars, layerVars>>
redisVars == <<store, expires, now, writtenAt, elapses>>
cacheVars == <<redis_client, redisVars>>
inputVars == <<problem_title, problem_description, backend, profile,
               storeAtStart, invocations, callerVars>>
budgetVars == <<pulled, steadyPulled, failures>>
retryVars == <<attempt, retry_delay, exc, sleeps>>
streamVars == <<inner_buffer, chunk_count, budgetVars, providerCalls, attemptLog>>
lookupVars == <<cached_result, lookup, lookupKey>>
writeVars == <<writes, writeOutcome>>

\* an event produced by stream_analysis itself
Yield(event) ==
    /\ events' = Append(events, event)
    /\ UNCHANGED <<content_buffer, produced>>

\* stream_analysis line 247: `yield chunk`
Relayed(chunk) == chunk

\* an event of _stream_openai_analysis, passed on by the `async for` of
\* stream_analysis (lines 244-247)
Relay(event) ==
    /\ content_buffer' = Accumulate(content_buffer, event)
    /\ produced' = Append(produced, event)
    /\ events' = Append(events, Relayed(event))

\* stream_analysis(t, d, b) is called: a new generator, suspended before
\* its first statement, against a provider that behaves as p
StartStream(t, d, b, p) ==
    /\ p = "steady" => steadyPulled = 0
    /\ invocations' = invocations + 1
    /\ problem_title' = t
    /\ problem_description' = d
    /\ backend' = b
    /\ profile' = p
    /\ storeAtStart' = store
    /\ pc' = "start"
    /\ events' = <<>>
    /\ produced' = <<>>
    /\ attempt' = 0
    /\ retry_delay' = InitialRetryDelay
    /\ inner_buffer' = <<>>
    /\ chunk_count' = 0
    /\ content_buffer' = <<>>
    /\ exc' = ""
    /\ cached_result' = <<>>
    /\ providerCalls' = 0
    /\ attemptLog' = <<>>
    /\ sleeps' = <<>>
    /\ lookup' = ""
    /\ lookupKey' = NoKey
    /\ writes' = <<>>
    /\ writeOutcome' = ""
    /\ UNCHANGED <<cacheVars, budgetVars>>

\* A caller starts stream_analysis(title, description, backend) and takes
\* every event.
Invoke(t, d, b, p) ==
    /\ pc \in {"idle", "done"}
    /\ invocations < MaxInvocations
    /\ StartStream(t, d, b, p)
    /\ UNCHANGED callerVars

\* lines 215-219: the first event
InitializingEvent_Late == StatusEvent("Initializing analysis...", NoArg, 5)
InitializingEvent == StatusEvent("Initializing analysis...", NoArg, 0)

\* lines 210-219: the prompt is rendered, then status(0) is yielded
YieldInitializing ==
    /\ pc = "start"
    /\ Yield(InitializingEvent)
    /\ pc' = "check_cache"
    /\ UNCHANGED <<cacheVars, inputVars, retryVars, streamVars, lookupVars, writeVars>>

\* lines 222-223 with check_cache (44-58), then the branch on the backend
CheckCache ==
    /\ pc = "check_cache"
    /\ \E outcome \in check_cache(CacheLookupArg) :
          /\ lookup' = outcome.lookup
          /\ lookupKey' = outcome.key
          /\ cached_result' = outcome.result
    /\ pc' = IF cached_result' # <<>> THEN "cached_status" ELSE Dispatch(backend)
    /\ UNCHANGED <<cacheVars, inputVars, retryVars, streamVars, writeVars,
                   events, produced, content_buffer>>

\* lines 224-239: the cache-hit path
YieldCachedStatus ==
    /\ pc = "cached_status"
    /\ Yield(StatusEvent("Found cached analysis", NoArg, 50))
    /\ pc' = "cached_delta"
    /\ UNCHANGED <<cacheVars, inputVars, retryVars, streamVars, lookupVars, writeVars>>

YieldCachedDelta ==
    /\ pc = "cached_delta"
    /\ Yield(DeltaEvent(CachedContent(cached_result[1])))
    /\ pc' = "cached_complete"
    /\ UNCHANGED <<cacheVars, inputVars, retryVars, streamVars, lookupVars, writeVars>>

YieldCachedComplete ==
    /\ pc = "cached_complete"
    /\ Yield(CompleteEvent)
    /\ pc' = "done"
    /\ UNCHANGED <<cacheVars, inputVars, retryVars, streamVars, lookupVars, writeVars>>

\* ------------------------------------------- _stream_openai_analysis
\* whether the provider of this invocation may hand out one more chunk
CanPull ==
    \/ profile = "flaky" /\ pulled < MaxFrags
    \/ profile = "steady" /\ steadyPulled < MaxSteady

\* whether the provider of this invocation may fail once more
CanFail == profile = "flaky" /\ failures < MaxFailures

\* the never-failing provider ends its stream after MaxSteady chunks
CanEnd == profile = "steady" => steadyPulled = MaxSteady

\* the never-failing provider streams a, b, a, b, ...
ChunkChoices ==
    IF profile = "steady"
      THEN {IF steadyPulled % 2 = 0 THEN "a" ELSE "b"}
      ELSE Chars

\* the record of the attempt under way
EndAttempt(outcome) ==
    [attemptLog EXCEPT ![Len(attemptLog)].outcome = outcome]

\* lines 90-94: status "Connecting to OpenAI (attempt k)"
YieldConnecting ==
    /\ pc = "connect"
    /\ Relay(StatusEvent("Connecting to OpenAI (attempt {attempt + 1})...",
                         attempt + 1, ConnectProgress(attempt)))
    /\ pc' = "create"
    /\ UNCHANGED <<cacheVars, inputVars, retryVars, streamVars, lookupVars, writeVars>>

\* lines 96-105: chat.completions.create returns a stream
CreateReturns ==
    /\ pc = "create"
    /\ providerCalls' = providerCalls + 1
    /\ attemptLog' = Append(attemptLog, [frags |-> <<>>, outcome |-> "running"])
    /\ pc' = "generating"
    /\ UNCHANGED <<cacheVars, inputVars, retryVars, lookupVars, writeVars,
                   events, produced, content_buffer, inner_buffer, chunk_count, budgetVars>>

\* lines 96-105: chat.completions.create raises
CreateRaises(class) ==
    /\ pc = "create"
    /\ CanFail
    /\ failures' = failures + 1
    /\ providerCalls' = providerCalls + 1
    /\ attemptLog' = Append(attemptLog, [frags |-> <<>>, outcome |-> class])
    /\ exc' = class
    /\ pc' = "except"
    /\ UNCHANGED <<cacheVars, inputVars, lookupVars, writeVars, events, produced,
                   content_buffer, inner_buffer, chunk_count, pulled,
                   steadyPulled, attempt, retry_delay, sleeps>>

\* lines 107-114: status "Generating analysis...", then the attempt's own
\* buffer and counter are reset
YieldGenerating ==
    /\ pc = "generating"
    /\ Relay(StatusEvent("Generating analysis...", NoArg, 20))
    /\ inner_buffer' = <<>>
    /\ chunk_count' = 0
    /\ pc' = "stream"
    /\ UNCHANGED <<cacheVars, inputVars, retryVars, lookupVars, writeVars,
                   budgetVars, providerCalls, attemptLog>>

\* lines 116-125: a chunk with content arrives and is yielded as a delta
ChunkContent(c) ==
    /\ pc = "stream"
    /\ CanPull
    /\ c \in ChunkChoices
    /\ IF profile = "steady"
         THEN steadyPulled' = steadyPulled + 1 /\ UNCHANGED pulled
         ELSE pulled' = pulled + 1 /\ UNCHANGED steadyPulled
    /\ inner_buffer' = inner_buffer \o <<c>>
    /\ chunk_count' = chunk_count + 1
    /\ attemptLog' = [attemptLog EXCEPT ![Len(attemptLog)].frags = Append(@, c)]
    /\ Relay(DeltaEvent(<<c>>))
    /\ pc' = IF chunk_count' % ProgressEvery = 0 THEN "progress" ELSE "stream"
    /\ UNCHANGED <<cacheVars, inputVars, retryVars, lookupVars, writeVars,
                   providerCalls, failures>>

\* line 117: a chunk without content is skipped
ChunkEmpty ==
    /\ pc = "stream"
    /\ profile = "flaky"
    /\ CanPull
    /\ pulled' = pulled + 1
    /\ UNCHANGED <<cacheVars, inputVars, retryVars, lookupVars, writeVars, pc,
                   events, produced, content_buffer, inner_buffer, chunk_count,
                   providerCalls, attemptLog, steadyPulled, failures>>

\* lines 128-133: the status after every 10th fragment
YieldProgress ==
    /\ pc = "progress"
    /\ Relay(StatusEvent("", NoArg, PeriodicProgress(chunk_count)))
    /\ pc' = "stream"
    /\ UNCHANGED <<cacheVars, inputVars, retryVars, streamVars, lookupVars, writeVars>>

\* line 116: the iteration over the provider's stream raises
StreamRaises(class) ==
    /\ pc = "stream"
    /\ CanFail
    /\ failures' = failures + 1
    /\ attemptLog' = EndAttempt(class)
    /\ exc' = class
    /\ pc' = "except"
    /\ UNCHANGED <<cacheVars, inputVars, lookupVars, writeVars, events, produced,
                   content_buffer, inner_buffer, chunk_count, pulled,
                   steadyPulled, providerCalls, attempt, retry_delay, sleeps>>

\* lines 135-140: the stream is exhausted; complete is yielded and the
\* generator returns
YieldComplete ==
    /\ pc = "stream"
    /\ CanEnd
    /\ attemptLog' = EndAttempt("ok")
    /\ Relay(CompleteEvent)
    /\ pc' = "after_stream"
    /\ UNCHANGED <<cacheVars, inputVars, retryVars, lookupVars, writeVars,
                   inner_buffer, chunk_count, budgetVars, providerCalls>>

\* lines 142-151, 160-169, 178-187: a failure of an attempt that is not the
\* last one: an event naming the delay is yielded
HandleRetry ==
    /\ pc = "except"
    /\ RetryAllowed(attempt)
    /\ Relay(ErrorEvent(RetryMessage(exc), retry_delay, RetryCode(exc)))
    /\ pc' = "sleep"
    /\ UNCHANGED <<cacheVars, inputVars, retryVars, streamVars, lookupVars, writeVars>>

\* lines 150-151 (168-169, 186-187): asyncio.sleep(retry_delay), the delay
\* doubles, and the for loop goes to its next iteration (or ends)
Backoff ==
    /\ pc = "sleep"
    /\ sleeps' = Append(sleeps, retry_delay)
    /\ retry_delay' = NextDelay(retry_delay)
    /\ attempt' = attempt + 1
    /\ exc' = ""
    /\ pc' = IF attempt + 1 < max_retries THEN "connect" ELSE "after_stream"
    /\ UNCHANGED <<cacheVars, inputVars, streamVars, lookupVars, writeVars,
                   events, produced, content_buffer>>

\* lines 152-158, 170-176, 188-194: the failure of the last attempt: the
\* final error event is yielded, then the exception is raised again
HandleFinal ==
    /\ pc = "except"
    /\ ~RetryAllowed(attempt)
    /\ Relay(ErrorEvent(FinalMessage(exc), NoArg, FinalCode(exc)))
    /\ pc' = AfterFinalError
    /\ UNCHANGED <<cacheVars, inputVars, retryVars, streamVars, lookupVars, writeVars>>

\* ------------------------------------------------------- stream_analysis
\* lines 263-269: the exception leaves the `async for` and is caught by
\* `except Exception`, which yields one more error event
YieldAnalysisFailed ==
    /\ pc = "reraise"
    /\ Yield(ErrorEvent("Analysis failed: {e}", NoArg, "ANALYSIS_FAILED"))
    /\ exc' = ""
    /\ pc' = "done"
    /\ UNCHANGED <<cacheVars, inputVars, streamVars, lookupVars, writeVars,
                   attempt, retry_delay, sleeps>>

\* lines 249-251 with cache_result (60-81)
CacheResult ==
    /\ pc = "after_stream"
    /\ IF ~ShouldCache(content_buffer)
         THEN /\ pc' = "done"
              /\ UNCHANGED <<redisVars, writes, writeOutcome>>
         ELSE \/ /\ redis_client = "none"
                 /\ writeOutcome' = "noclient"
                 /\ pc' = "done"
                 /\ UNCHANGED <<redisVars, writes>>
              \/ /\ redis_client = "connected"
                 /\ writeOutcome' = "error"      \* setex raises
                 /\ pc' = AfterCacheWriteError
                 /\ UNCHANGED <<redisVars, writes>>
              \/ /\ redis_client = "connected"
                 /\ LET key == _generate_cache_key(CacheWriteArg)
                        value == JsonDumps(CacheData(content_buffer))
                    IN /\ store' = Setex(store, key, value)
                       /\ expires' = (key :> ExpiryArg) @@ expires
                       /\ writtenAt' = (key :> now) @@ writtenAt
                       /\ UNCHANGED <<now, elapses>>
                       /\ writes' = Append(writes, [key |-> key, value |-> value])
                 /\ writeOutcome' = "written"
                 /\ pc' = "done"
    /\ UNCHANGED <<redis_client, inputVars, retryVars, streamVars, lookupVars,
                   events, produced, content_buffer>>

\* lines 196-203, 253-255: the ollama placeholder
YieldNotImplemented ==
    /\ pc = "ollama"
    /\ Yield(ErrorEvent("Ollama backend not yet implemented", NoArg, "NOT_IMPLEMENTED"))
    /\ pc' = "done"
    /\ UNCHANGED <<cacheVars, inputVars, retryVars, streamVars, lookupVars, writeVars>>

\* lines 256-261
YieldUnsupported ==
    /\ pc = "unsupported"
    /\ Yield(ErrorEvent("Unsupported backend: {backend}", NoArg, "UNSUPPORTED_BACKEND"))
    /\ pc' = "done"
    /\ UNCHANGED <<cacheVars, inputVars, retryVars, streamVars, lookupVars, writeVars>>

Next ==
    \/ \E t \in Titles, d \in Descriptions, b \in Backends, p \in ProviderProfiles :
           Invoke(t, d, b, p)
    \/ YieldInitializing
    \/ CheckCache
    \/ YieldCachedStatus
    \/ YieldCachedDelta
    \/ YieldCachedComplete
    \/ YieldConnecting
    \/ CreateReturns
    \/ \E class \in FailureClasses : CreateRaises(class)
    \/ YieldGenerating
    \/ \E c \in Chars : ChunkContent(c)
    \/ ChunkEmpty
    \/ YieldProgress
    \/ \E class \in FailureClasses : StreamRaises(class)
    \/ YieldComplete
    \/ HandleRetry
    \/ Backoff
    \/ HandleFinal
    \/ YieldAnalysisFailed
    \/ CacheResult
    \/ YieldNotImplemented
    \/ YieldUnsupported

Spec == Init /\ [][Next]_vars

\* ====================================================== POST /api/analyze
\* ---------------------------------------------------------- request texts
\* A text of a request: `lead` whitespace characters, a body that neither
\* starts nor ends with whitespace, `trail` whitespace characters.
Str(lead, body, trail) == [lead |-> lead, body |-> body, trail |-> trail]
Plain(body) == Str(0, body, 0)

\* the number of characters of the bodies used as inputs: each body stands
\* for a text of a length at a boundary of the request models
BodyLen(body) ==
    CASE body = "d1" -> description_min_length
      [] body = "d2" -> description_max_length
      [] body = "short" -> description_min_length - 1
      [] body = "long" -> description_max_length + 1
      [] body = "t1" -> title_min_length
      [] body = "t2" -> title_max_length
      [] body = "tt" -> title_min_length - 1

\* len(s) and s.strip()
StrLen(s) == s.lead + BodyLen(s.body) + s.trail
Strip(s) == Plain(s.body)

RECURSIVE Spaces(_)
Spaces(n) == IF n = 0 THEN "" ELSE " " \o Spaces(n - 1)

\* the str object the analyzer is handed
Text(s) == Spaces(s.lead) \o s.body \o Spaces(s.trail)

RawTitles == {Plain("t1"), Plain("t2"), Plain("tt")}
RawDescriptions ==
    {Plain("d1"), Plain("d2"), Plain("short"), Plain("long"),
     Str(1, "short", 0), Str(0, "d1", 1), Str(0, "d2", 1)}

\* ------------------------------------------------------ request validation
\* Field(min_length=lo, max_length=hi): checked on the text as received
FieldLength(s, lo, hi) == lo <= StrLen(s) /\ StrLen(s) <= hi

\* BackendType(value) succeeds
IsBackendType(b) == b \in {"openai", "ollama"}

\* ProblemAnalysisRequest.validate_description_length (models.py 17-23);
\* <<>> stands for the ValueError
validate_description_length(v) ==
    IF StrLen(Strip(v)) < description_min_length THEN <<>>
    ELSE IF StrLen(Strip(v)) > description_max_length THEN <<>>
    ELSE <<Strip(v)>>

\* ProblemAnalysisRequest.validate_title (models.py 25-27)
validate_title(v) == <<Strip(v)>>

\* ProblemAnalysisRequest(**body) (models.py 12-27): the field constraints,
\* then the validators; <<>> stands for the validation error
ProblemAnalysisRequest(title, description, b) ==
    IF /\ FieldLength(title, title_min_length, title_max_length)
       /\ FieldLength(description, description_min_length, description_max_length)
       /\ IsBackendType(b)
       /\ validate_description_length(description) # <<>>
      THEN <<[problem_title |-> validate_title(title)[1],
              problem_description |-> validate_description_length(description)[1],
              backend |-> b]>>
      ELSE <<>>

\* ------------------------------------------------------------- responses
\* AnalysisResponse built from the result of analyze_blocking (api_routes 58-70)
AnalysisResponse(analysis, cached) ==
    [status |-> 200, analysis |-> analysis, cached |-> cached, detail |-> <<>>]

\* HTTPException(500, f"Analysis failed: {e}") (api_routes 72-77)
HTTPException500(msg) ==
    [status |-> 500, analysis |-> <<>>, cached |-> FALSE,
     detail |-> <<"Analysis failed: ", msg>>]

\* the response FastAPI sends when the body fails validation
ValidationResponse ==
    [status |-> 422, analysis |-> <<>>, cached |-> FALSE, detail |-> <<>>]

\* ---------------------------------------------------------------- state
\* a stored value that json.loads rejects
Unreadable == [kind |-> "garbage", data |-> CacheData(<<>>)]

\* a key of the same Redis database that no analysis owns
OtherKey == <<"session:", <<"1">>>>

\* what the Redis key space may hold when the service starts
SeededStores ==
    {EmptyStore,
     (_generate_cache_key("d1") :> Unreadable) @@ (OtherKey :> Unreadable)
         @@ EmptyStore}

InitRest ==
    /\ InitAnalyzer
    /\ store \in SeededStores
    /\ InitClock
    /\ InitCallers

invocationVars ==
    <<pc, problem_title, problem_description, backend, profile, storeAtStart,
      invocations, events, produced, content_buffer, retryVars, streamVars,
      lookupVars, writeVars>>
analyzerVars == <<cacheVars, invocationVars>>

\* analyze_blocking: `elif chunk.get("type") == error: raise` (293-294)
BlockingRaises_Never(chunk) == FALSE
BlockingRaises(chunk) == chunk.type = "error"

\* analyze_blocking: the `cached` of the result built at lines 298-303
StreamedCachedFlag_Always == TRUE
StreamedCachedFlag == FALSE

\* ---------------------------------------------------------------- actions
\* A request body arrives: FastAPI validates it against
\* ProblemAnalysisRequest, then analyze_problem calls analyze_blocking.
PostAnalyze(title, description, b) ==
    /\ bpc = "idle"
    /\ requests < MaxRequests
    /\ requests' = requests + 1
    /\ request' = ProblemAnalysisRequest(title, description, b)
    /\ IF request' = <<>>
         THEN /\ response' = ValidationResponse
              /\ bpc' = "idle"
         ELSE /\ response' = NoResponse
              /\ bpc' = "check"
    /\ bbuffer' = <<>>
    /\ bseen' = 0
    /\ blookup' = ""
    /\ UNCHANGED <<analyzerVars, nonRestVars>>

\* analyze_blocking lines 280-290: check_cache; a hit is returned at once
\* (and analyze_problem answers 200), otherwise stream_analysis is called
BlockingCheckCache(p) ==
    /\ bpc = "check"
    /\ \E outcome \in check_cache(Text(request[1].problem_description)) :
          /\ blookup' = outcome.lookup
          /\ IF outcome.result # <<>>
               THEN /\ response' = AnalysisResponse(outcome.result[1].analysis, TRUE)
                    /\ bpc' = "idle"
                    /\ UNCHANGED analyzerVars
               ELSE /\ StartStream(Text(request[1].problem_title),
                                   Text(request[1].problem_description),
                                   request[1].backend, p)
                    /\ bpc' = "consume"
                    /\ UNCHANGED response
    /\ UNCHANGED <<request, requests, bbuffer, bseen, nonRestVars>>

\* the generator runs only while the `async for` of analyze_blocking waits
\* for its next event
Resumed == bpc = "consume" /\ bseen = Len(events)

\* analyze_blocking lines 290-294: the loop takes the event just yielded: a
\* delta is appended, an error is raised (analyze_problem answers 500, the
\* abandoned generator is closed where it is suspended)
BlockingTake ==
    /\ bpc = "consume"
    /\ bseen < Len(events)
    /\ LET chunk == events[bseen + 1]
       IN /\ bseen' = bseen + 1
          /\ bbuffer' = Accumulate(bbuffer, chunk)
          /\ IF BlockingRaises(chunk)
               THEN /\ response' = HTTPException500(chunk.message)
                    /\ bpc' = "idle"
                    /\ pc' = "closed"
               ELSE UNCHANGED <<response, bpc, pc>>
    /\ UNCHANGED <<cacheVars, problem_title, problem_description, backend,
                   profile, storeAtStart, invocations, events, produced, content_buffer,
                   retryVars, streamVars, lookupVars, writeVars, request,
                   blookup, requests, nonRestVars>>

\* analyze_blocking lines 296-303: the generator is exhausted, the collected
\* text is returned (analyze_problem answers 200)
BlockingReturn ==
    /\ bpc = "consume"
    /\ pc = "done"
    /\ bseen = Len(events)
    /\ response' = AnalysisResponse(bbuffer, StreamedCachedFlag)
    /\ bpc' = "idle"
    /\ UNCHANGED <<analyzerVars, request, bbuffer, bseen, blookup, requests,
                   nonRestVars>>

\* main.py lifespan lines 41-46: the process shuts down once no request is
\* being served; the process-wide connection, if there is one, is closed
Shutdown ==
    /\ bpc = "idle"
    /\ bpc' = "stopped"
    /\ redis_client' = IF redis_client = "connected" THEN "closed"
                                                     ELSE redis_client
    /\ UNCHANGED <<redisVars, invocationVars, request, bbuffer, bseen, blookup,
                   response, requests, nonRestVars>>

\* The steps of the generator after a relayed error event (Backoff,
\* HandleFinal, YieldAnalysisFailed) are no part of this relation:
\* analyze_blocking leaves its loop at the first error event, so the
\* generator is never resumed behind one.
NextRest ==
    \/ \E title \in RawTitles, description \in RawDescriptions, b \in Backends :
           PostAnalyze(title, description, b)
    \/ \E p \in ProviderProfiles : BlockingCheckCache(p)
    \/ BlockingTake
    \/ BlockingReturn
    \/ Shutdown
    \/ Resumed /\ YieldInitializing
    \/ Resumed /\ CheckCache
    \/ Resumed /\ YieldCachedStatus
    \/ Resumed /\ YieldCachedDelta
    \/ Resumed /\ YieldCachedComplete
    \/ Resumed /\ YieldConnecting
    \/ Resumed /\ CreateReturns
    \/ \E class \in FailureClasses : Resumed /\ CreateRaises(class)
    \/ Resumed /\ YieldGenerating
    \/ \E c \in Chars : Resumed /\ ChunkContent(c)
    \/ Resumed /\ ChunkEmpty
    \/ Resumed /\ YieldProgress
    \/ \E class \in FailureClasses : Resumed /\ StreamRaises(class)
    \/ Resumed /\ YieldComplete
    \/ Resumed /\ HandleRetry
    \/ Resumed /\ CacheResult
    \/ Resumed /\ YieldNotImplemented

SpecRest == InitRest /\ [][NextRest]_vars

\* =================================================== POST /api/cache/clear
\* clear_cache line 167: the pattern handed to redis keys()
ClearPattern_Everything == <<"", "*">>
ClearPattern == <<"analysis:", "*">>

\* Redis glob matching of a key against a `prefix*` pattern
GlobMatches(key, pattern) ==
    /\ pattern[2] = "*"
    /\ pattern[1] = "" \/ key[1] = pattern[1]

\* redis keys(pattern)
Keys(pattern) == {k \in DOMAIN store : GlobMatches(k, pattern)}

\* redis delete(*keys): the key space without them
Delete(keys) == [k \in DOMAIN store \ keys |-> store[k]]

\* the answers of clear_cache (lines 164, 170-178, 180-184)
ClearSuccess(deleted_count) ==
    [status |-> 200, message |-> "Cleared cached analyses",
     deleted_count |-> deleted_count]
ClearNothing ==
    [status |-> 200, message |-> "No cached analyses found",
     deleted_count |-> NoInt]
ClearUnavailable ==
    [status |-> 503, message |-> "Redis not connected", deleted_count |-> NoInt]
ClearFailed ==
    [status |-> 500, message |-> "Failed to clear cache", deleted_count |-> NoInt]

\* clear_cache: 503 without a client; keys("analysis:*") and, when it found
\* any, delete(*keys); a Redis failure of either call is answered 500 (a
\* failed delete may or may not have been applied by the server)
ClearCache ==
    /\ Len(cleared) < MaxClears
    /\ IF redis_client = "none"
         THEN /\ cleared' = Append(cleared, ClearUnavailable)
              /\ UNCHANGED store
         ELSE \/ /\ cleared' = Append(cleared, ClearFailed)
                 /\ UNCHANGED store
              \/ LET keys == Keys(ClearPattern)
                 IN IF keys # {}
                      THEN \/ /\ store' = Delete(keys)
                              /\ cleared' = Append(cleared,
                                                ClearSuccess(Cardinality(keys)))
                           \/ /\ store' \in {store, Delete(keys)}
                              /\ cleared' = Append(cleared, ClearFailed)
                      ELSE /\ cleared' = Append(cleared, ClearNothing)
                           /\ UNCHANGED store
    /\ expires' = [k \in DOMAIN store' |-> expires[k]]
    /\ UNCHANGED <<now, writtenAt, elapses>>
    /\ UNCHANGED <<redis_client, pc, problem_title, problem_description,
                   backend, profile, storeAtStart, invocations, events, produced,
                   content_buffer, retryVars, streamVars, lookupVars,
                   writeVars, request, bpc, bbuffer, bseen, blookup, response,
                   requests, wsVars, pairVars, layerVars>>

\* The clear endpoint beside analyses of the process-wide analyzer whose
\* provider does not fail: a clear request may be served wherever the
\* generator is suspended.
InitClear ==
    /\ InitAnalyzer
    /\ store \in SeededStores
    /\ InitClock
    /\ InitCallers

NextClear ==
    \/ ClearCache
    \/ \E t \in Titles, d \in Descriptions : Invoke(t, d, "openai", "flaky")
    \/ YieldInitializing
    \/ CheckCache
    \/ YieldCachedStatus
    \/ YieldCachedDelta
    \/ YieldCachedComplete
    \/ YieldConnecting
    \/ CreateReturns
    \/ YieldGenerating
    \/ \E c \in Chars : ChunkContent(c)
    \/ YieldComplete
    \/ CacheResult

SpecClear == InitClear /\ [][NextClear]_vars

\* ============================================================= /ws/stream
\* ---------------------------------------------------------- inbound texts
\* A text frame of the client: not JSON at all, JSON that is no object, or
\* a JSON object with the four fields of WebSocketMessage.
WsActions == {"analyze", "ping", "other"}
WsTitles == {Plain("t1"), Plain("tt")}
WsDescriptions == {Plain("d1"), Plain("short"), Str(1, "short", 0), Str(0, "d2", 1)}
WsObjects ==
    [action : WsActions, problem_title : WsTitles,
     problem_description : WsDescriptions, backend : Backends]
NoObject ==
    [action |-> "", problem_title |-> Plain("tt"),
     problem_description |-> Plain("short"), backend |-> ""]
WsTexts ==
    {[kind |-> "garbage", data |-> NoObject], [kind |-> "array", data |-> NoObject]}
    \cup {[kind |-> "object", data |-> o] : o \in WsObjects}

\* the provider failures of the websocket behaviours
WsFailureClasses == {"Exception"}

\* json.loads(data) returns / returns a dict
WsJsonParses(text) == text.kind # "garbage"
IsMapping(text) == text.kind = "object"

\* WebSocketMessage(**message_data) (models.py 30-34): the field constraints
\* only; <<>> stands for the ValidationError
WebSocketMessage(o) ==
    IF /\ FieldLength(o.problem_title, title_min_length, title_max_length)
       /\ FieldLength(o.problem_description, description_min_length,
                      description_max_length)
       /\ IsBackendType(o.backend)
      THEN <<o>>
      ELSE <<>>

\* ------------------------------------------------------ ConnectionManager
\* send_message (lines 29-35) with the delivered texts `log`: nothing
\* happens for a client that is not registered; send_text to an open socket
\* delivers json.dumps(msg); to a socket the client has closed it raises
\* (the client is unregistered) or returns with the text lost.
send_message(log, msg) ==
    IF ~active
      THEN replies' = log /\ UNCHANGED active
    ELSE IF socket = "open"
      THEN replies' = Append(log, JsonDumps(msg)) /\ UNCHANGED active
    ELSE \/ /\ active' = FALSE
            /\ replies' = log
         \/ /\ replies' = log
            /\ UNCHANGED active

\* ---------------------------------------------------------------- state
InitWs ==
    /\ InitAnalyzer
    /\ redis_client = "none"
    /\ store = EmptyStore
    /\ InitClock
    /\ InitRestIdle
    /\ InitPairIdle
    /\ InitLayersIdle
    /\ wpc = "accept"
    /\ socket = "open"
    /\ active = FALSE
    /\ message = <<>>
    /\ wseen = 0
    /\ replies = <<>>
    /\ received = 0
    /\ closedAt = NoInt

\* ---------------------------------------------------------------- actions
\* lines 43-57: accept, register, initialize_redis (a connection of this
\* session's own analyzer is opened, or the ping fails and none is kept),
\* the greeting
WsConnect ==
    /\ wpc = "accept"
    /\ socket = "open"
    /\ active' = TRUE
    /\ redis_client' \in {"connected", "none"}
    /\ replies' = <<JsonDumps(StatusEvent("Connected to CodeForge AI", NoArg, 0))>>
    /\ wpc' = "receive"
    /\ UNCHANGED <<redisVars, invocationVars, nonWsVars, socket, message, wseen,
                   received, closedAt>>

\* line 47: websocket.accept() raises; `except Exception` (130-131) logs,
\* `finally` (132-133) finds no client to unregister, the handler ends
WsAcceptRaises ==
    /\ wpc = "accept"
    /\ wpc' = "ended"
    /\ UNCHANGED <<analyzerVars, nonWsVars, socket, active, message, wseen,
                   replies, received, closedAt>>

\* The handler's task is cancelled while it waits in receive_text (line
\* 62): CancelledError is no Exception, so it passes lines 120 and 130;
\* `finally` (132-133) unregisters the client and the handler ends.
WsCancelled ==
    /\ wpc = "receive"
    /\ active' = FALSE
    /\ wpc' = "ended"
    /\ UNCHANGED <<analyzerVars, nonWsVars, socket, message, wseen, replies,
                   received, closedAt>>

\* The client goes away: while the handler waits for its next text, or
\* during a stream when the last text delivered to it is a delta.
ClientDisconnect ==
    /\ socket = "open"
    /\ \/ wpc = "receive"
       \/ /\ wpc = "streaming"
          /\ replies # <<>>
          /\ JsonLoads(replies[Len(replies)]).type = "delta"
    /\ socket' = "closed"
    /\ closedAt' = Len(events)
    /\ UNCHANGED <<analyzerVars, nonWsVars, wpc, active, message, wseen, replies,
                   received>>

\* the handler's answer if it looked at the action before validating
WsAnswer_DispatchFirst(text) ==
    IF ~WsJsonParses(text)
      THEN ErrorEvent("Invalid JSON format", NoArg, "JSON_ERROR")
    ELSE IF ~IsMapping(text)
      THEN ErrorEvent("Internal server error", NoArg, "INTERNAL_ERROR")
    ELSE IF JsonLoads(text).action = "ping"
      THEN StatusEvent("pong", NoArg, 0)
    ELSE IF WebSocketMessage(JsonLoads(text)) = <<>>
      THEN ErrorEvent("Invalid request format: {e}", NoArg, "VALIDATION_ERROR")
    ELSE ErrorEvent("Unknown action: {message.action}", NoArg, "UNKNOWN_ACTION")

\* what the handler answers to a text that does not start an analysis
\* (lines 63-74, 100-126)
WsAnswer(text) ==
    IF ~WsJsonParses(text)
      THEN ErrorEvent("Invalid JSON format", NoArg, "JSON_ERROR")
    ELSE IF ~IsMapping(text)
      THEN ErrorEvent("Internal server error", NoArg, "INTERNAL_ERROR")
    ELSE IF WebSocketMessage(JsonLoads(text)) = <<>>
      THEN ErrorEvent("Invalid request format: {e}", NoArg, "VALIDATION_ERROR")
    ELSE IF JsonLoads(text).action = "ping"
      THEN StatusEvent("pong", NoArg, 0)
    ELSE ErrorEvent("Unknown action: {message.action}", NoArg, "UNKNOWN_ACTION")

\* whether the text reaches `if message.action == "analyze"` (line 76)
StartsAnalysis(text) ==
    /\ WsJsonParses(text)
    /\ IsMapping(text)
    /\ WebSocketMessage(JsonLoads(text)) # <<>>
    /\ JsonLoads(text).action = "analyze"

\* line 62: the handler is at `await websocket.receive_text()`, which it
\* reaches only from the greeting and from the end of a loop iteration
AwaitsText_AlsoWhileStreaming == wpc \in {"receive", "streaming"}
AwaitsText == wpc = "receive"

\* lines 62-126: a text is received and handled up to the next await that
\* can take long: the next receive_text, or the first step of the stream
WsReceive(text, p) ==
    /\ AwaitsText
    /\ socket = "open"
    /\ received < MaxMessages
    /\ received' = received + 1
    /\ IF StartsAnalysis(text)
         THEN /\ invocations < MaxInvocations
              /\ message' = WebSocketMessage(JsonLoads(text))
              /\ send_message(<<>>, StatusEvent("Starting analysis: {message.problem_title}",
                                                 NoArg, 5))
              /\ StartStream(Text(message'[1].problem_title),
                             Text(message'[1].problem_description),
                             message'[1].backend, p)
              /\ wseen' = 0
              /\ wpc' = "streaming"
         ELSE /\ send_message(<<>>, WsAnswer(text))
              /\ message' = <<>>
              /\ UNCHANGED <<analyzerVars, wseen, wpc>>
    /\ UNCHANGED <<nonWsVars, socket, closedAt>>

\* line 62 after the client went away: receive_text raises, the handler of
\* line 120 tries to send INTERNAL_ERROR, the loop goes on
WsReceiveRaises ==
    /\ wpc = "receive"
    /\ socket = "closed"
    /\ send_message(replies, ErrorEvent("Internal server error", NoArg,
                                        "INTERNAL_ERROR"))
    /\ UNCHANGED <<analyzerVars, nonWsVars, wpc, socket, message, wseen,
                   received, closedAt>>

\* the generator runs only while the `async for` of the handler waits for
\* its next event
WsResumed == wpc = "streaming" /\ wseen = Len(events)

\* lines 85-90: the event just yielded is passed to send_message
WsForward ==
    /\ wpc = "streaming"
    /\ wseen < Len(events)
    /\ send_message(replies, events[wseen + 1])
    /\ wseen' = wseen + 1
    /\ UNCHANGED <<analyzerVars, nonWsVars, wpc, socket, message, received,
                   closedAt>>

\* line 85: the generator is exhausted, the handler goes back to line 62
WsStreamEnd ==
    /\ wpc = "streaming"
    /\ pc = "done"
    /\ wseen = Len(events)
    /\ wpc' = "receive"
    /\ UNCHANGED <<analyzerVars, nonWsVars, socket, active, message, wseen,
                   replies, received, closedAt>>

\* `except Exception` of lines 92-98 (ANALYSIS_ERROR) has no action:
\* neither the generator nor send_message raises.  BackendType admits no
\* third backend, so YieldUnsupported is no part of this relation.
NextWs ==
    \/ WsConnect
    \/ WsAcceptRaises
    \/ WsCancelled
    \/ ClientDisconnect
    \/ \E text \in WsTexts, p \in ProviderProfiles : WsReceive(text, p)
    \/ WsReceiveRaises
    \/ WsForward
    \/ WsStreamEnd
    \/ WsResumed /\ YieldInitializing
    \/ WsResumed /\ CheckCache
    \/ WsResumed /\ YieldCachedStatus
    \/ WsResumed /\ YieldCachedDelta
    \/ WsResumed /\ YieldCachedComplete
    \/ WsResumed /\ YieldConnecting
    \/ WsResumed /\ CreateReturns
    \/ \E class \in WsFailureClasses : WsResumed /\ CreateRaises(class)
    \/ WsResumed /\ YieldGenerating
    \/ \E c \in Chars : WsResumed /\ ChunkContent(c)
    \/ WsResumed /\ ChunkEmpty
    \/ WsResumed /\ YieldProgress
    \/ \E class \in WsFailureClasses : WsResumed /\ StreamRaises(class)
    \/ WsResumed /\ YieldComplete
    \/ WsResumed /\ HandleRetry
    \/ WsResumed /\ Backoff
    \/ WsResumed /\ HandleFinal
    \/ WsResumed /\ YieldAnalysisFailed
    \/ WsResumed /\ CacheResult
    \/ WsResumed /\ YieldNotImplemented

SpecWs == InitWs /\ [][NextWs]_vars

\* The websocket behaviours whose provider streams are short (at most
\* MaxFrags chunks, so no status after a 10th fragment): the handler and
\* the connection manager are those of NextWs.
NextWsShort ==
    \/ WsConnect
    \/ WsAcceptRaises
    \/ WsCancelled
    \/ ClientDisconnect
    \/ \E text \in WsTexts : WsReceive(text, "flaky")
    \/ WsReceiveRaises
    \/ WsForward
    \/ WsStreamEnd
    \/ WsResumed /\ YieldInitializing
    \/ WsResumed /\ CheckCache
    \/ WsResumed /\ YieldCachedStatus
    \/ WsResumed /\ YieldCachedDelta
    \/ WsResumed /\ YieldCachedComplete
    \/ WsResumed /\ YieldConnecting
    \/ WsResumed /\ CreateReturns
    \/ \E class \in WsFailureClasses : WsResumed /\ CreateRaises(class)
    \/ WsResumed /\ YieldGenerating
    \/ \E c \in Chars : WsResumed /\ ChunkContent(c)
    \/ WsResumed /\ ChunkEmpty
    \/ \E class \in WsFailureClasses : WsResumed /\ StreamRaises(class)
    \/ WsResumed /\ YieldComplete
    \/ WsResumed /\ HandleRetry
    \/ WsResumed /\ Backoff
    \/ WsResumed /\ HandleFinal
    \/ WsResumed /\ YieldAnalysisFailed
    \/ WsResumed /\ CacheResult
    \/ WsResumed /\ YieldNotImplemented

SpecWsShort == InitWs /\ [][NextWsShort]_vars

\* The websocket behaviours whose messages do not name the openai backend:
\* an analysis ends with NOT_IMPLEMENTED after its cache lookup, nothing is
\* ever written to the cache.
WsLocalTexts == {text \in WsTexts : text.data.backend # "openai"}

NextWsLocal ==
    \/ WsConnect
    \/ WsAcceptRaises
    \/ WsCancelled
    \/ ClientDisconnect
    \/ \E text \in WsLocalTexts : WsReceive(text, "flaky")
    \/ WsReceiveRaises
    \/ WsForward
    \/ WsStreamEnd
    \/ WsResumed /\ YieldInitializing
    \/ WsResumed /\ CheckCache
    \/ WsResumed /\ YieldNotImplemented

SpecWsLocal == InitWs /\ [][NextWsLocal]_vars

\* ==================== several /ws/stream connections, one ConnectionManager
\* Every connection has a websocket object and a handler of its own (line
\* 42); all handlers use the module's one `manager` (line 38).  A websocket
\* object is written as its serial number, the index into `handlers`.

\* websocket connections in one behaviour
MaxConnections == 3
\* send_message calls of one handler
MaxSends == 2

\* the addresses id() can return; an address is taken while its object exists
Addresses == {1, 2}

\* line 43: client_id = f"client_{id(websocket)}"
ClientId_Shared(address) == 0
ClientId(address) == address

\* a websocket object exists while its handler has not ended (the handler's
\* frame refers to it) or the manager's map refers to it
HandlerRunning(c) == handlers[c].hpc # "ended"
Existing ==
    {c \in DOMAIN handlers : HandlerRunning(c)}
    \cup {active_connections[k] : k \in DOMAIN active_connections}
FreeAddresses == Addresses \ {handlers[c].address : c \in Existing}

\* ConnectionManager.connect after accept() (line 21)
connect(map, websocket, client_id) ==
    [k \in DOMAIN map \cup {client_id} |->
        IF k = client_id THEN websocket ELSE map[k]]

\* ConnectionManager.disconnect (lines 24-27)
disconnect(map, client_id) ==
    IF client_id \in DOMAIN map
      THEN [k \in DOMAIN map \ {client_id} |-> map[k]]
      ELSE map

\* send_message, `except Exception` (lines 33-35)
AfterSendError_Keeps(map, client_id) == map
AfterSendError(map, client_id) == disconnect(map, client_id)

\* the handler's client id
IdOf(c) == ClientId(handlers[c].address)

\* a handler that has ended: its connection is closed, the counts of its
\* calls are not kept
Ended(h) ==
    [hpc |-> "ended", address |-> h.address, peer |-> "closed",
     hist |-> IF h.hist = "in" THEN "out" ELSE h.hist,
     sends |-> 0, attempts |-> 0, last |-> "none"]

\* a new connection: the server builds its websocket object and starts the
\* handler, which computes client_id (lines 42-44)
McArrive ==
    /\ Len(handlers) < MaxConnections
    /\ \E a \in FreeAddresses :
          handlers' = Append(handlers,
              [hpc |-> "accept", address |-> a, peer |-> "open",
               hist |-> "never", sends |-> 0, attempts |-> 0, last |-> "none"])
    /\ UNCHANGED <<active_connections, delivered>>

\* manager.connect (lines 19-22, called at line 47): accept() returns and
\* the websocket is registered
McConnect(c) ==
    /\ handlers[c].hpc = "accept"
    /\ active_connections' = connect(active_connections, c, IdOf(c))
    /\ handlers' = [handlers EXCEPT ![c].hpc = "loop", ![c].hist = "in"]
    /\ UNCHANGED delivered

\* line 20: accept() raises; `except Exception` (130-131), `finally`
\* (132-133) calls disconnect, the handler ends
McAcceptRaises(c) ==
    /\ handlers[c].hpc = "accept"
    /\ active_connections' = disconnect(active_connections, IdOf(c))
    /\ handlers' = [handlers EXCEPT ![c] = Ended(@)]
    /\ UNCHANGED delivered

\* the client of the connection goes away
McPeerCloses(c) ==
    /\ handlers[c].hpc = "loop"
    /\ handlers[c].peer = "open"
    /\ handlers' = [handlers EXCEPT ![c].peer = "closed"]
    /\ UNCHANGED <<active_connections, delivered>>

\* manager.send_message(client_id, ...) called by the handler (lines 29-35):
\* nothing for an id that is not registered, else send_text on the websocket
\* registered under the id; on a websocket whose client is gone send_text
\* raises (the id is unregistered, nothing is re-raised) or returns with the
\* text lost
McSend(c) ==
    /\ handlers[c].hpc = "loop"
    /\ handlers[c].sends < MaxSends
    /\ IF IdOf(c) \notin DOMAIN active_connections
         THEN /\ handlers' = [handlers EXCEPT ![c].sends = @ + 1,
                                              ![c].last = "noop"]
              /\ UNCHANGED <<active_connections, delivered>>
         ELSE LET websocket == active_connections[IdOf(c)] IN
              IF handlers[websocket].peer = "open"
                THEN /\ delivered' = delivered \cup {<<c, websocket>>}
                     /\ handlers' = [handlers EXCEPT ![c].sends = @ + 1,
                                                     ![c].attempts = @ + 1,
                                                     ![c].last = "sent"]
                     /\ UNCHANGED active_connections
                ELSE \/ /\ active_connections' =
                              AfterSendError(active_connections, IdOf(c))
                        /\ handlers' = [handlers EXCEPT ![c].sends = @ + 1,
                                                        ![c].attempts = @ + 1,
                                                        ![c].last = "failed",
                                                        ![c].hist = "out"]
                        /\ UNCHANGED delivered
                     \/ /\ handlers' = [handlers EXCEPT ![c].sends = @ + 1,
                                                        ![c].attempts = @ + 1,
                                                        ![c].last = "lost"]
                        /\ UNCHANGED <<active_connections, delivered>>

\* the handler's task is cancelled in its loop: `finally` (132-133) calls
\* disconnect and the handler ends
McEnds(c) ==
    /\ handlers[c].hpc = "loop"
    /\ active_connections' = disconnect(active_connections, IdOf(c))
    /\ handlers' = [handlers EXCEPT ![c] = Ended(@)]
    /\ UNCHANGED delivered

nonManagerVars ==
    <<analyzerVars, restVars, clearVars, wsVars, pairVars, problemVars>>

InitManager ==
    /\ InitAnalyzer
    /\ redis_client = "none"
    /\ store = EmptyStore
    /\ InitClock
    /\ InitCallers

NextManager ==
    \/ McArrive /\ UNCHANGED nonManagerVars
    \/ \E c \in DOMAIN handlers : McConnect(c) /\ UNCHANGED nonManagerVars
    \/ \E c \in DOMAIN handlers : McAcceptRaises(c) /\ UNCHANGED nonManagerVars
    \/ \E c \in DOMAIN handlers : McPeerCloses(c) /\ UNCHANGED nonManagerVars
    \/ \E c \in DOMAIN handlers : McSend(c) /\ UNCHANGED nonManagerVars
    \/ \E c \in DOMAIN handlers : McEnds(c) /\ UNCHANGED nonManagerVars

SpecManager == InitManager /\ [][NextManager]_vars

\* ============================================== the problem-record layer
\* src/app/api/api_v1/endpoints/problems.py: problem records and analysis
\* sessions in module-level dicts, ids from module-level counters, the
\* analysis as a background task around ai_service.analyze_problem
\* (src/app/services/ai_service.py).  All handlers and tasks are coroutines
\* of one event loop: a step runs from one await to the next.

\* create_problem calls in one behaviour
MaxProblems == 2
\* analyses started in one behaviour
MaxTasks == 2

\* the title a problem is created with, the title an update gives it
CreatedTitle == "p1"
UpdatedTitle == "p2"
\* ids a request path can name: those assigned and one that never is
ProblemIds == 1..(MaxProblems + 1)
\* the providers AIService knows (ai_service.py 164, 169)
AllProviders == {"openai", "anthropic"}
\* the configurations of the process: no API key, or the OpenAI key only
Configurations == {{}, {"openai"}}

PyNone == "None"
\* a field the request body does not carry
Unset == "unset"

\* schemas/problem.py 7-11
AnalysisStatus == {"pending", "processing", "completed", "failed"}

\* `counter += 1; id = counter` (lines 29-30, 99-100)
NextId_Stuck(counter) == IF counter = 0 THEN 1 ELSE counter
NextId(counter) == counter + 1

\* db[key] = value
Put(db, key, value) ==
    [k \in DOMAIN db \cup {key} |-> IF k = key THEN value ELSE db[k]]

\* del db[key]
Del(db, key) == [k \in DOMAIN db \ {key} |-> db[k]]

\* lines 102-112
NewProblem(id, title) ==
    [id |-> id, title |-> title, analysis_status |-> "pending",
     analysis_result |-> PyNone]

\* lines 33-44
NewSession(id, problem_id, provider) ==
    [id |-> id, problem_id |-> problem_id, status |-> "processing",
     ai_provider |-> provider, completed_at |-> PyNone,
     error_message |-> PyNone]

\* the bodies of PUT /{problem_id}: a JSON object that carries a title,
\* one that carries an analysis_status
UpdateBodies ==
    {[title |-> UpdatedTitle, analysis_status |-> Unset],
     [title |-> Unset, analysis_status |-> "completed"]}

\* ProblemUpdate (schemas/problem.py 22-27) declares title, description,
\* background and user_email; what else a body carries is ignored
UpdateFields_Undeclared == {"title", "analysis_status"}
UpdateFields == {"title"}

\* problem_update.dict(exclude_unset=True) (line 145)
UpdateData(body) ==
    [f \in {g \in UpdateFields : body[g] # Unset} |-> body[f]]

\* lines 147-148
Updated(problem, update_data) ==
    [f \in DOMAIN problem |->
        IF f \in DOMAIN update_data THEN update_data[f] ELSE problem[f]]

\* problems_db[problem_id][field] = value (lines 79, 80, 84): KeyError for
\* an id that is not stored
WriteField_Creates(db, id, field, value) ==
    IF id \in DOMAIN db
      THEN [raised |-> FALSE, db |-> [db EXCEPT ![id][field] = value]]
      ELSE [raised |-> FALSE,
            db |-> Put(db, id, [NewProblem(id, CreatedTitle) EXCEPT ![field] = value])]
WriteField(db, id, field, value) ==
    IF id \in DOMAIN db
      THEN [raised |-> FALSE, db |-> [db EXCEPT ![id][field] = value]]
      ELSE [raised |-> TRUE, db |-> db]

\* lines 76-77, 81-82: the session's status by result["success"]
SessionStatus_Completed(success) == "completed"
SessionStatus(success) == IF success THEN "completed" ELSE "failed"

\* analyze_problem (lines 173-189): the status code of the answer
AnalyzeStatus_AnyProvider(id, provider) ==
    IF id \notin DOMAIN problems_db THEN 404
    ELSE IF providers = {} THEN 503
    ELSE 200
AnalyzeStatus(id, provider) ==
    IF id \notin DOMAIN problems_db THEN 404
    ELSE IF providers = {} THEN 503
    ELSE IF provider \notin providers THEN 400
    ELSE 200

\* a background task that has not started; one that has finished
QueuedTask(id, provider) ==
    [tpc |-> "queued", problem_id |-> id, ai_provider |-> provider,
     session_id |-> 0]
DoneTask == [tpc |-> "done", problem_id |-> 0, ai_provider |-> "", session_id |-> 0]

\* ------------------------------------------------------------- handlers
\* POST / (lines 94-116)
create_problem ==
    /\ problem_counter < MaxProblems
    /\ problem_counter' = NextId(problem_counter)
    /\ problems_db' = Put(problems_db, problem_counter',
                          NewProblem(problem_counter', CreatedTitle))
    /\ assigned' = Append(assigned, problem_counter')
    /\ UNCHANGED <<analysis_sessions_db, session_counter, providers, tasks,
                   presponse>>

\* PUT /{problem_id} (lines 138-152)
update_problem(id, body) ==
    /\ IF id \notin DOMAIN problems_db
         THEN UNCHANGED problems_db
         ELSE problems_db' =
                  [problems_db EXCEPT ![id] = Updated(@, UpdateData(body))]
    /\ UNCHANGED <<analysis_sessions_db, problem_counter, session_counter,
                   providers, tasks, assigned, presponse>>

\* DELETE /{problem_id} (lines 155-163)
delete_problem(id) ==
    /\ IF id \notin DOMAIN problems_db
         THEN UNCHANGED problems_db
         ELSE problems_db' = Del(problems_db, id)
    /\ UNCHANGED <<analysis_sessions_db, problem_counter, session_counter,
                   providers, tasks, assigned, presponse>>

\* POST /{problem_id}/analyze (lines 166-199): the task is added only when
\* no check has raised
analyze_problem(id, provider) ==
    /\ presponse' = <<AnalyzeStatus(id, provider)>>
    /\ IF AnalyzeStatus(id, provider) = 200
         THEN /\ Len(tasks) < MaxTasks
              /\ tasks' = Append(tasks, QueuedTask(id, provider))
         ELSE UNCHANGED tasks
    /\ UNCHANGED <<problems_db, analysis_sessions_db, problem_counter,
                   session_counter, providers, assigned>>

\* `except Exception` of run_analysis_task (lines 86-91)
SessionFailed(session, error) ==
    [session EXCEPT !.status = "failed", !.error_message = error,
                    !.completed_at = "set"]
FailedIfStored(db, id) ==
    IF id \in DOMAIN db
      THEN [db EXCEPT ![id].analysis_status = "failed"]
      ELSE db

\* run_analysis_task up to its await (lines 25-65): the session is created;
\* for a stored problem the status becomes processing and the provider is
\* called, else ValueError is raised and handled (86-91)
TaskStart(t) ==
    /\ tasks[t].tpc = "queued"
    /\ session_counter' = NextId(session_counter)
    /\ LET problem_id == tasks[t].problem_id
           session == NewSession(session_counter', problem_id,
                                 tasks[t].ai_provider)
       IN IF problem_id \in DOMAIN problems_db
            THEN /\ analysis_sessions_db' =
                       Put(analysis_sessions_db, session_counter', session)
                 /\ problems_db' =
                       [problems_db EXCEPT
                           ![problem_id].analysis_status = "processing"]
                 /\ tasks' = [tasks EXCEPT ![t].tpc = "awaiting",
                                           ![t].session_id = session_counter']
            ELSE /\ analysis_sessions_db' =
                       Put(analysis_sessions_db, session_counter',
                           SessionFailed(session, "Problem not found"))
                 /\ UNCHANGED problems_db
                 /\ tasks' = [tasks EXCEPT ![t] = DoneTask]
    /\ UNCHANGED <<problem_counter, providers, assigned, presponse>>

\* ai_service.analyze_problem has returned (ai_service.py 176-210: a result
\* with success False for a provider that is not configured and for every
\* exception of the provider's call); run_analysis_task lines 71-91
ProviderReturns(t, success) ==
    /\ tasks[t].tpc = "awaiting"
    /\ success => tasks[t].ai_provider \in providers
    /\ LET problem_id == tasks[t].problem_id
           sid == tasks[t].session_id
           session == [analysis_sessions_db[sid] EXCEPT
                          !.completed_at = "set",
                          !.status = SessionStatus(success),
                          !.error_message =
                              IF success THEN PyNone ELSE "provider error"]
           status == WriteField(problems_db, problem_id, "analysis_status",
                                IF success THEN "completed" ELSE "failed")
       IN IF status.raised
            THEN /\ analysis_sessions_db' =
                       [analysis_sessions_db EXCEPT
                           ![sid] = SessionFailed(session, "KeyError")]
                 /\ problems_db' = FailedIfStored(problems_db, problem_id)
            ELSE /\ analysis_sessions_db' =
                       [analysis_sessions_db EXCEPT ![sid] = session]
                 /\ problems_db' =
                       IF success
                         THEN WriteField(status.db, problem_id,
                                         "analysis_result",
                                         "structured_analysis").db
                         ELSE status.db
    /\ tasks' = [tasks EXCEPT ![t] = DoneTask]
    /\ UNCHANGED <<problem_counter, session_counter, providers, assigned,
                   presponse>>

nonProblemVars ==
    <<analyzerVars, restVars, clearVars, wsVars, pairVars, managerVars>>

\* the process has started: AIService() has registered the providers whose
\* API key is configured (ai_service.py 159-174, 218)
InitProblems ==
    /\ InitAnalyzer
    /\ redis_client = "none"
    /\ store = EmptyStore
    /\ InitClock
    /\ InitRestIdle
    /\ InitWsIdle
    /\ InitPairIdle
    /\ InitManagerIdle
    /\ InitProblemsIdle
    /\ providers \in Configurations

NextProblems ==
    \/ create_problem /\ UNCHANGED nonProblemVars
    \/ \E id \in ProblemIds, body \in UpdateBodies :
          update_problem(id, body) /\ UNCHANGED nonProblemVars
    \/ \E id \in ProblemIds : delete_problem(id) /\ UNCHANGED nonProblemVars
    \/ \E id \in ProblemIds, provider \in AllProviders :
          analyze_problem(id, provider) /\ UNCHANGED nonProblemVars
    \/ \E t \in DOMAIN tasks : TaskStart(t) /\ UNCHANGED nonProblemVars
    \/ \E t \in DOMAIN tasks, success \in BOOLEAN :
          ProviderReturns(t, success) /\ UNCHANGED nonProblemVars

SpecProblems == InitProblems /\ [][NextProblems]_vars

\* ================================== two concurrent calls of stream_analysis
\* Each call of stream_analysis is a generator of its own with its own local
\* content_buffer; the calls share the Redis key space and interleave
\* wherever one of them is suspended (at a yield or an await).  The provider
\* of these calls does not fail.
MaxPeerFrags == 2

\* stream_analysis(title, d, openai) is called
PeerStart(i, d) ==
    /\ peers[i].pc = "idle"
    /\ peers' = [peers EXCEPT ![i] = [pc |-> "check_cache", description |-> d,
                                       content_buffer |-> <<>>]]
    /\ UNCHANGED <<redisVars, writeOrder>>

\* lines 222-239: check_cache; a hit is answered from the cache
PeerCheckCache(i) ==
    /\ peers[i].pc = "check_cache"
    /\ \E outcome \in check_cache(peers[i].description) :
          peers' = [peers EXCEPT ![i].pc =
                       IF outcome.result # <<>> THEN "cached" ELSE "stream"]
    /\ UNCHANGED <<redisVars, writeOrder>>

\* lines 244-247: a delta of the provider is relayed and accumulated
PeerDelta(i, c) ==
    /\ peers[i].pc = "stream"
    /\ Len(peers[i].content_buffer) < MaxPeerFrags
    /\ peers' = [peers EXCEPT ![i].content_buffer =
                     Accumulate(@, DeltaEvent(<<c>>))]
    /\ UNCHANGED <<redisVars, writeOrder>>

\* lines 244-247: the complete event of the provider path is relayed
PeerComplete(i) ==
    /\ peers[i].pc = "stream"
    /\ peers' = [peers EXCEPT ![i].pc = "after_stream"]
    /\ UNCHANGED <<redisVars, writeOrder>>

\* lines 249-251 with cache_result (60-81)
PeerCacheResult(i) ==
    /\ peers[i].pc = "after_stream"
    /\ peers' = [peers EXCEPT ![i].pc = "done"]
    /\ IF ~ShouldCache(peers[i].content_buffer)
         THEN UNCHANGED <<redisVars, writeOrder>>
         ELSE \/ /\ redis_client = "none"
                 /\ UNCHANGED <<redisVars, writeOrder>>
              \/ /\ redis_client = "connected"      \* setex raises
                 /\ UNCHANGED <<redisVars, writeOrder>>
              \/ /\ redis_client = "connected"
                 /\ LET key == _generate_cache_key(peers[i].description)
                    IN /\ store' = Setex(store, key,
                                         JsonDumps(CacheData(peers[i].content_buffer)))
                       /\ expires' = (key :> ExpiryArg) @@ expires
                       /\ writtenAt' = (key :> now) @@ writtenAt
                       /\ UNCHANGED <<now, elapses>>
                 /\ writeOrder' = Append(writeOrder, i)

\* the variables of the single invocation and of the endpoints
nonPairVars ==
    <<redis_client, pc, problem_title, problem_description, backend, profile,
      storeAtStart, invocations, events, produced, content_buffer, retryVars,
      streamVars, lookupVars, writeVars, restVars, clearVars, wsVars,
      layerVars>>

InitPair ==
    /\ InitAnalyzer
    /\ store = EmptyStore
    /\ InitClock
    /\ InitCallers

NextPair ==
    \/ \E i \in PeerIds, d \in Descriptions :
           PeerStart(i, d) /\ UNCHANGED nonPairVars
    \/ \E i \in PeerIds : PeerCheckCache(i) /\ UNCHANGED nonPairVars
    \/ \E i \in PeerIds, c \in Chars : PeerDelta(i, c) /\ UNCHANGED nonPairVars
    \/ \E i \in PeerIds : PeerComplete(i) /\ UNCHANGED nonPairVars
    \/ \E i \in PeerIds : PeerCacheResult(i) /\ UNCHANGED nonPairVars

SpecPair == InitPair /\ [][NextPair]_vars

\* ================================================ expiry of cache entries
\* Redis counts down the time to live of every key that has one and drops
\* the key when it reaches zero.  Time passes between and during analyses
\* of an analyzer whose provider does not fail.
MaxElapses == 3

\* the passages of time: one second, and one second less than the
\* configured time to live
ElapseSteps == {1, cache_ttl - 1}

\* the keys of the store that outlive the next `seconds` seconds
Outliving(seconds) ==
    {k \in DOMAIN store : expires[k] = NoExpiry \/ expires[k] > seconds}

Elapse(seconds) ==
    /\ elapses < MaxElapses
    /\ elapses' = elapses + 1
    /\ now' = now + seconds
    /\ store' = [k \in Outliving(seconds) |-> store[k]]
    /\ expires' = [k \in Outliving(seconds) |->
                      IF expires[k] = NoExpiry THEN NoExpiry
                                               ELSE expires[k] - seconds]
    /\ UNCHANGED <<redis_client, writtenAt, invocationVars, callerVars>>

InitTtl ==
    /\ InitAnalyzer
    /\ redis_client = "connected"
    /\ store = EmptyStore
    /\ InitClock
    /\ InitCallers

NextTtl ==
    \/ \E seconds \in ElapseSteps : Elapse(seconds)
    \/ \E p \in ProviderProfiles : Invoke("t1", "d1", "openai", p)
    \/ YieldInitializing
    \/ CheckCache
    \/ YieldCachedStatus
    \/ YieldCachedDelta
    \/ YieldCachedComplete
    \/ YieldConnecting
    \/ CreateReturns
    \/ YieldGenerating
    \/ \E c \in Chars : ChunkContent(c)
    \/ YieldProgress
    \/ YieldComplete
    \/ CacheResult

SpecTtl == InitTtl /\ [][NextTtl]_vars

\* ================================================================ claims
Last(seq) == seq[Len(seq)]
Terminal(event) == event.type \in {"complete", "error"}
TerminalPositions == {i \in 1..Len(events) : Terminal(events[i])}
Failed(entry) == entry.outcome \in FailureClasses
FailedAttempts == {i \in 1..Len(attemptLog) : Failed(attemptLog[i])}
AllAttemptsFailed ==
    /\ Len(attemptLog) = max_retries
    /\ \A i \in 1..Len(attemptLog) : Failed(attemptLog[i])
SucceededAfterFailure ==
    /\ pc = "done"
    /\ attemptLog # <<>>
    /\ Last(attemptLog).outcome = "ok"
    /\ FailedAttempts # {}
DeltaText(evs) ==
    LET F[i \in 0..Len(evs)] ==
            IF i = 0 THEN <<>>
            ELSE IF evs[i].type = "delta" THEN F[i - 1] \o evs[i].content
            ELSE F[i - 1]
    IN F[Len(evs)]

\* C1: the events of an invocation hold exactly one terminal event (complete
\* or error), it is the last one, and no event follows a complete or an
\* error event.
C1_OneTerminalEventLast ==
    /\ \A i \in TerminalPositions : i = Len(events)
    /\ pc = "done" => TerminalPositions = {Len(events)}

\* the terminal code the interface names for each failure class
C2_ExpectedFinalCode(class) ==
    CASE class = "RateLimitError" -> "RATE_LIMIT_EXCEEDED"
      [] class = "APITimeoutError" -> "TIMEOUT_EXCEEDED"
      [] OTHER -> "API_ERROR_FINAL"

\* C2: when all 3 attempts fail, the last event of the stream is the error
\* event whose code names the failure class of the last attempt.
C2_ExhaustionEndsWithClassCode ==
    (pc = "done" /\ AllAttemptsFailed) =>
        /\ Last(events).type = "error"
        /\ Last(events).error_code = C2_ExpectedFinalCode(Last(attemptLog).outcome)

\* C3: the provider is called at most 3 times; every attempt but the last
\* one failed (a success is followed by no attempt); a finished invocation
\* that went to the provider ended with a success or with exactly 3 calls
\* (a failed first or second attempt is followed by one more attempt).
C3_AtMostThreeAttempts ==
    /\ providerCalls <= 3
    /\ providerCalls = Len(attemptLog)
    /\ \A i \in 1..(Len(attemptLog) - 1) : Failed(attemptLog[i])
    /\ (pc = "done" /\ attemptLog # <<>>) =>
           \/ Last(attemptLog).outcome = "ok"
           \/ AllAttemptsFailed /\ providerCalls = 3
    /\ (pc = "done" /\ attemptLog # <<>> /\ Last(attemptLog).outcome = "ok") =>
           providerCalls = Cardinality(FailedAttempts) + 1

C3_Witness_TwoFailuresThenSuccess ==
    /\ pc = "done"
    /\ providerCalls = 3
    /\ Failed(attemptLog[1]) /\ Failed(attemptLog[2])
    /\ attemptLog[3].outcome = "ok"

\* C4: the text written to the cache is the in-order concatenation of the
\* fragments of the one successful attempt; fragments of an attempt that
\* raised are not part of it.
C4_CachedTextIsSuccessfulAttempt ==
    \A i \in 1..Len(writes) :
        /\ Last(attemptLog).outcome = "ok"
        /\ writes[i].value.data.analysis = Last(attemptLog).frags

\* C5: when a later attempt succeeds after failed ones, the concatenation of
\* all delivered delta events is the fragment sequence of the successful
\* attempt.
C5_DeliveredTextIsSuccessfulAttempt ==
    SucceededAfterFailure => DeltaText(events) = Last(attemptLog).frags

\* C6: the event emitted before a retry has type status; a failure that is
\* retried produces no event of type error.
C6_RetryNoticeIsStatus ==
    pc = "sleep" => Last(events).type = "status"

\* the events that announce a retry, and the number of failures retried
RetryCodes == {"RATE_LIMIT", "TIMEOUT", "API_ERROR"}
RetryNotices == SelectSeq(events, LAMBDA e : e.error_code \in RetryCodes)
RetriedFailures ==
    IF Cardinality(FailedAttempts) < 2 THEN Cardinality(FailedAttempts) ELSE 2

\* C7: one retry notification per retried failure, naming the delay; the
\* delay waited before the first retry is 1 and before the second 2,
\* whatever the failure classes; nothing is waited after the third failure.
C7_BackoffOneThenTwo ==
    /\ Len(sleeps) <= 2
    /\ \A i \in 1..Len(sleeps) : sleeps[i] = 2 ^ (i - 1)
    /\ \A i \in 1..Len(RetryNotices) : RetryNotices[i].arg = 2 ^ (i - 1)
    /\ Len(RetryNotices) = IF pc = "sleep" THEN Len(sleeps) + 1 ELSE Len(sleeps)
    /\ pc \notin {"except", "sleep"} => Len(sleeps) = RetriedFailures

C7_Witness_RateLimitThenTimeout ==
    /\ pc = "done"
    /\ Len(attemptLog) = 3
    /\ attemptLog[1].outcome = "RateLimitError"
    /\ attemptLog[2].outcome = "APITimeoutError"
    /\ Failed(attemptLog[3])
    /\ sleeps = <<1, 2>>

\* C8: an invocation that ends with an error event wrote nothing to the
\* cache: the store is what it was when the invocation began.
C8_ErrorEndWritesNothing ==
    (pc = "done" /\ Last(events).type = "error") =>
        /\ writes = <<>>
        /\ store = storeAtStart

C8_Witness_ExhaustedWithFragments ==
    /\ pc = "done"
    /\ redis_client = "connected"
    /\ AllAttemptsFailed
    /\ content_buffer # <<>>
    /\ Last(events).type = "error"

\* the key of a description as the interface fixes it: "analysis:" and the
\* first 16 hexadecimal digits of the SHA-256 digest of the description
ExpectedKey(description) ==
    CASE description = "d1" ->
           <<"analysis:", <<"8", "b", "5", "3", "6", "3", "9", "f", "1", "5", "2", "c", "8", "f", "c", "6">>>>
      [] description = "d2" ->
           <<"analysis:", <<"e", "7", "8", "8", "1", "0", "3", "e", "e", "1", "5", "3", "1", "8", "f", "c">>>>

\* the store held an entry for the description when the invocation began;
\* the lookup was answered by the store (client connected, get did not fail)
EntryAtStart == ExpectedKey(problem_description) \in DOMAIN storeAtStart
LookupServed == redis_client = "connected" /\ lookup \notin {"", "error"}

\* the four events of the cache-hit path and no provider call
HitPathTaken ==
        /\ providerCalls = 0
        /\ Len(events) = 4
        /\ events[1].type = "status" /\ events[1].progress = 0
        /\ events[2].type = "status" /\ events[2].progress = 50
        /\ events[3].type = "delta"
        /\ events[3].content =
               storeAtStart[ExpectedKey(problem_description)].data.analysis
        /\ events[4].type = "complete" /\ events[4].progress = 100

\* C9 (as stated): whenever the cache holds an entry for the description,
\* the invocation emits exactly status(0), status(50), delta(the cached
\* text), complete(100) and calls the provider zero times.
C9_HitWheneverEntryHeld ==
    (pc = "done" /\ EntryAtStart) => HitPathTaken

\* C9 (amended): when the cache holds an entry for the description and the
\* lookup is answered by the store, the invocation emits exactly status(0),
\* status(50), delta(the cached text), complete(100) and calls the provider
\* zero times, whatever the title and the backend.
C9_CacheHitPath ==
    (pc = "done" /\ EntryAtStart /\ LookupServed) => HitPathTaken

C9_Witness_HitWithOllama ==
    /\ pc = "done"
    /\ EntryAtStart /\ LookupServed
    /\ backend = "ollama"
    /\ problem_title = "t2"
    /\ Len(events[3].content) > 1

\* C10: the key read by the lookup and the key written are the key of the
\* description, for every title and backend; every key of the store is the
\* key of a description.
C10_KeyFromDescriptionOnly ==
    /\ lookupKey # NoKey => lookupKey = ExpectedKey(problem_description)
    /\ \A i \in 1..Len(writes) : writes[i].key = ExpectedKey(problem_description)
    /\ DOMAIN store \subseteq {ExpectedKey(d) : d \in Descriptions}
    /\ ExpectedKey("d1") # ExpectedKey("d2")

C10_Witness_SameKeyRewritten ==
    /\ pc = "done"
    /\ writes # <<>>
    /\ writes[1].key \in DOMAIN storeAtStart
    /\ lookupKey = writes[1].key
    /\ store # storeAtStart

\* ------------------------------------------------- claims on the REST path
ErrorPositions == {i \in 1..Len(events) : events[i].type = "error"}
FailedLookups == {"noclient", "error", "unreadable"}
FailedWrites == {"noclient", "error"}
ConnectingFirst ==
    StatusEvent("Connecting to OpenAI (attempt {attempt + 1})...", 1,
                ConnectProgress(0))

CompletedByProvider ==
    /\ pc = "done"
    /\ attemptLog # <<>>
    /\ Last(attemptLog).outcome = "ok"
    /\ Last(events) = CompleteEvent

\* C12: an invocation writes to the cache exactly when it reached complete
\* through the provider path with a non-empty accumulated buffer: the write
\* (store operational) follows the complete event and leaves the accumulated
\* text under the key of the description; when the successful attempt
\* produced no fragment, nothing is written.
C12_WriteExactlyOnProviderComplete ==
    /\ writes # <<>> =>
          /\ CompletedByProvider
          /\ content_buffer # <<>>
          /\ Len(writes) = 1
          /\ store[_generate_cache_key(problem_description)]
                = JsonDumps(CacheData(content_buffer))
    /\ (CompletedByProvider /\ content_buffer # <<>> /\ writeOutcome = "written")
          => writes # <<>>
    /\ (CompletedByProvider /\ Last(attemptLog).frags = <<>>) => writes = <<>>

\* ----------------------------------------- claims on analyze_blocking
ErrorMessages == {events[i].message : i \in ErrorPositions}
StoredText(description) ==
    JsonLoads(store[_generate_cache_key(description)]).analysis

\* C13: analyze_blocking either fails with the message of an error event of
\* its stream, or returns the cached text of a hit, or returns the in-order
\* concatenation of the deltas of a stream that ended with complete and
\* held no error event.
C13_BlockingResultFromCleanStream ==
    /\ response.status = 500 =>
          \E m \in ErrorMessages : response.detail = <<"Analysis failed: ", m>>
    /\ (response.status = 200 /\ response.cached) =>
          /\ blookup = "hit"
          /\ response.analysis = StoredText(Text(request[1].problem_description))
    /\ (response.status = 200 /\ ~response.cached) =>
          /\ pc = "done"
          /\ ErrorPositions = {}
          /\ Last(events) = CompleteEvent
          /\ response.analysis = DeltaText(events)

C13_Witness_LongStreamReturned ==
    /\ response.status = 200
    /\ ~response.cached
    /\ lookup # "hit"
    /\ Len(response.analysis) > 1
    /\ response.analysis[1] # response.analysis[2]

\* C14: analyze_blocking fails because of a provider failure only when all
\* max_retries attempts failed; a provider that fails once or twice and then
\* succeeds gets its analysis returned.
C14_FailsOnlyAfterExhaustion ==
    (response.status = 500 /\ bseen > 0 /\ backend = "openai") => AllAttemptsFailed

\* the stream of the request under way (or just answered) called the provider
ProviderCalledForRequest == bseen > 0 /\ providerCalls > 0

\* C15: a result with cached = true comes from a request during which no
\* provider call was made; a result obtained after a provider call carries
\* cached = false.
C15_CachedMeansNoProviderCall ==
    /\ (response.status = 200 /\ response.cached) => ~ProviderCalledForRequest
    /\ (response.status = 200 /\ ProviderCalledForRequest) => ~response.cached

C15_Witness_HitAfterStreamedRequest ==
    /\ requests = 2
    /\ response.status = 200
    /\ response.cached
    /\ providerCalls > 0
    /\ response.analysis # <<>>

\* ---------------------------------------- claims on the websocket path
DeliveredTypes == {JsonLoads(replies[i]).type : i \in 1..Len(replies)}
ClosedBeforeComplete ==
    /\ closedAt # NoInt
    /\ "delta" \in DeliveredTypes
    /\ \A i \in 1..closedAt : events[i].type # "complete"

\* C16: when the client goes away after a delta was delivered to it and
\* before complete, the invocation writes no cache entry.
C16_NoWriteAfterDisconnect ==
    ClosedBeforeComplete => writes = <<>>

\* C17: once a failed send has shown the handler that the client is gone
\* (send_message has unregistered it), no further fragment is pulled from
\* the provider for the invocation under way.
C17_NoPullAfterObservedDisconnect ==
    [][(wpc = "streaming" /\ socket = "closed" /\ ~active)
          => (pulled' = pulled /\ steadyPulled' = steadyPulled)]_vars

\* ------------------------------------------------- claims on termination
\* the steps of a generator that has been called and has not ended
GeneratorStep ==
    \/ YieldInitializing \/ CheckCache
    \/ YieldCachedStatus \/ YieldCachedDelta \/ YieldCachedComplete
    \/ YieldConnecting \/ CreateReturns
    \/ \E class \in FailureClasses : CreateRaises(class) \/ StreamRaises(class)
    \/ YieldGenerating
    \/ \E c \in Chars : ChunkContent(c)
    \/ ChunkEmpty \/ YieldProgress \/ YieldComplete
    \/ HandleRetry \/ Backoff \/ HandleFinal \/ YieldAnalysisFailed
    \/ CacheResult \/ YieldNotImplemented \/ YieldUnsupported

\* position of a suspension point on the way to the end of the generator
StepRank(p) ==
    CASE p = "start" -> 20
      [] p = "check_cache" -> 19
      [] p = "cached_status" -> 18
      [] p = "cached_delta" -> 17
      [] p = "cached_complete" -> 16
      [] p \in {"ollama", "unsupported"} -> 15
      [] p = "connect" -> 9
      [] p = "create" -> 8
      [] p = "generating" -> 7
      [] p = "progress" -> 6
      [] p = "stream" -> 5
      [] p = "except" -> 4
      [] p = "sleep" -> 3
      [] p = "reraise" -> 2
      [] p = "after_stream" -> 1
      [] OTHER -> 0

\* attempts left to the retry loop, chunks left to the provider, position
Variant ==
    (max_retries - attempt) * 1000
    + ((MaxFrags - pulled) + (MaxSteady - steadyPulled)) * 30
    + StepRank(pc)

Running == pc \notin {"idle", "done"}

TrimmedAndBounded(d) ==
    /\ d = Strip(d)
    /\ description_min_length <= StrLen(Strip(d))
    /\ StrLen(Strip(d)) <= description_max_length

\* C19: a description that reaches the core, through POST /api/analyze or
\* through /ws/stream, is trimmed of surrounding whitespace and has a
\* trimmed length between 50 and 5000, and the core is called with exactly
\* that text.
C19_DescriptionTrimmedAndBounded ==
    /\ request # <<>> =>
          /\ TrimmedAndBounded(request[1].problem_description)
          /\ bseen > 0 => problem_description = Text(request[1].problem_description)
    /\ message # <<>> =>
          /\ TrimmedAndBounded(message[1].problem_description)
          /\ problem_description = Text(message[1].problem_description)

\* ----------------------------------------- claims on inbound messages
ValidObject(text) ==
    IsMapping(text) /\ WebSocketMessage(JsonLoads(text)) # <<>>

\* the handler's whole reaction to a text is one error event with this
\* code: the analyzer is left alone and the connection stays as it was
AnsweredOnly(code) ==
    /\ Len(replies') = 1
    /\ JsonLoads(replies'[1]).type = "error"
    /\ JsonLoads(replies'[1]).error_code = code
    /\ UNCHANGED analyzerVars
    /\ wpc' = "receive"
    /\ socket' = "open"
    /\ active'

\* C20: on /ws/stream the core is called only for a text that parses as
\* JSON, passes validation and has the action "analyze"; a text that is not
\* JSON is answered by one error JSON_ERROR, a malformed payload by one
\* error VALIDATION_ERROR, an unknown action by one error UNKNOWN_ACTION,
\* each without touching cache or provider, and the handler goes on to its
\* next receive.
C20_OnlyValidAnalyzeReachesCore ==
    [][\A text \in WsTexts, p \in ProviderProfiles :
          WsReceive(text, p) =>
            /\ invocations' # invocations =>
                  (ValidObject(text) /\ JsonLoads(text).action = "analyze")
            /\ ~WsJsonParses(text) => AnsweredOnly("JSON_ERROR")
            /\ (WsJsonParses(text) /\ ~ValidObject(text)) =>
                  AnsweredOnly("VALIDATION_ERROR")
            /\ (ValidObject(text) /\ JsonLoads(text).action \notin {"analyze", "ping"})
                  => AnsweredOnly("UNKNOWN_ACTION")]_vars

\* ------------------------------------------------------------------ C21
\* the keys of a key space that carry the prefix of cached analyses
AnalysisKeys(space) == {k \in DOMAIN space : k[1] = "analysis:"}

\* this step is a clear request answered with success
SuccessfulClear ==
    /\ Len(cleared') = Len(cleared) + 1
    /\ Last(cleared').status = 200

\* this step writes a cache entry
CacheWriteStep == Len(writes') > Len(writes)

\* C21: a successful clear leaves no key with the prefix "analysis:" and
\* every other key as it was, reports the number of keys it deleted, and
\* when there was no such key it deletes nothing and reports that no cached
\* analyses were found; without a cache write no such key comes back, so a
\* second clear finds nothing
C21_ClearIsIdempotent ==
    [][/\ SuccessfulClear =>
            /\ AnalysisKeys(store') = {}
            /\ \A k \in DOMAIN store \ AnalysisKeys(store) :
                   k \in DOMAIN store' /\ store'[k] = store[k]
            /\ DOMAIN store' \subseteq DOMAIN store
            /\ IF AnalysisKeys(store) = {}
                 THEN store' = store /\ Last(cleared') = ClearNothing
                 ELSE Last(cleared') =
                          ClearSuccess(Cardinality(AnalysisKeys(store)))
       /\ (AnalysisKeys(store) = {} /\ ~CacheWriteStep) =>
              AnalysisKeys(store') = {}]_vars

\* a clear deleted the one cached analysis and left the foreign key, and the
\* next clear found none
C21_Witness_SecondClearFindsNothing ==
    /\ cleared = <<ClearSuccess(1), ClearNothing>>
    /\ DOMAIN store = {OtherKey}
    /\ writes # <<>>

\* ------------------------------------------------------------------ C22
\* the invocation went to the provider: the lookup gave no entry and the
\* backend is openai
ProviderPath == backend = "openai" /\ lookup \notin {"", "hit"}

\* C22: on the provider path the events stream_analysis has emitted after
\* its initial status(0) are exactly the events the retry controller has
\* yielded, in the same order, none dropped, added or duplicated
C22_RelayedInProductionOrder ==
    ProviderPath => SubSeq(events, 2, Len(events)) = produced

\* ------------------------------------------------------------------ C23
\* the lookup of this invocation gave no entry
CacheMiss == lookup \notin {"", "hit"}

\* the events so far are a prefix of status(0), error(code); the second
\* event ends the invocation; no delta or complete event, no event of the
\* retry controller, no provider call and no cache write
StopsWithError(code) ==
    /\ Len(events) \in {1, 2}
    /\ events[1].type = "status" /\ events[1].progress = 0
    /\ Len(events) = 2 <=> pc = "done"
    /\ Len(events) = 2 =>
          events[2].type = "error" /\ events[2].error_code = code
    /\ produced = <<>>
    /\ providerCalls = 0
    /\ attemptLog = <<>>
    /\ writes = <<>> /\ writeOutcome = ""
    /\ store = storeAtStart

\* C23: on a cache miss with backend ollama stream_analysis emits
\* status(0), then exactly one error event with code NOT_IMPLEMENTED, and
\* ends; it emits no delta and no complete event, calls no provider and
\* writes nothing to the cache
C23_OllamaNotImplemented ==
    (backend = "ollama" /\ CacheMiss) => StopsWithError("NOT_IMPLEMENTED")

\* an ollama invocation ended after a lookup that the store answered
C23_Witness_OllamaEnded ==
    /\ backend = "ollama"
    /\ lookup = "miss"
    /\ pc = "done"
    /\ Last(events).error_code = "NOT_IMPLEMENTED"

C27_UnsupportedBackend ==
    (backend \notin {"", "openai", "ollama"} /\ CacheMiss) =>
        StopsWithError("UNSUPPORTED_BACKEND")

\* an invocation with a third backend ended after a lookup that the store
\* answered
C27_Witness_UnsupportedEnded ==
    /\ backend = "other"
    /\ lookup = "miss"
    /\ pc = "done"
    /\ Last(events).error_code = "UNSUPPORTED_BACKEND"

\* ------------------------------------------------------------------ C29
\* the periodic progress is evaluated for 0, 10, ... 10 * MaxTens fragments
MaxTens == 15

\* position of the last `Generating analysis...` status before event i
AttemptStart(i) ==
    LET starts == {j \in 1..(i - 1) :
                      events[j].message = "Generating analysis..."}
    IN CHOOSE j \in starts : \A k \in starts : k <= j

\* number of fragments the attempt under way had streamed when event i was
\* emitted
FragmentsSoFar(i) ==
    Cardinality({j \in AttemptStart(i)..i : events[j].type = "delta"})

\* min(20 + 5 * (n div 10), 90), written out
ExpectedPeriodic(n) ==
    IF 20 + 5 * (n \div 10) <= 90 THEN 20 + 5 * (n \div 10) ELSE 90

\* the expression of the periodic progress is min(20 + 5*(n div 10), 90)
\* and stays within 20..90 for n = 0, 10, ... 10 * MaxTens
PeriodicWithinCap ==
    \A tens \in 0..MaxTens :
        /\ PeriodicProgress(10 * tens) = ExpectedPeriodic(10 * tens)
        /\ PeriodicProgress(10 * tens) \in 20..90

\* what C29 says of event i
ProgressAsSpecified(i) ==
    LET ev == events[i]
    IN /\ ev.progress # NoProgress => ev.progress \in 0..100
       /\ ev.type = "status" => ev.progress # NoProgress
       /\ (ev.type = "status" /\ ev.arg # NoArg) =>
              /\ ev.arg \in 1..3
              /\ ev.progress = 10 + 5 * (ev.arg - 1)
       /\ ev.message = "Generating analysis..." => ev.progress = 20
       /\ (ev.type = "status" /\ ev.message = "") =>
              /\ FragmentsSoFar(i) > 0
              /\ FragmentsSoFar(i) % 10 = 0
              /\ ev.progress = ExpectedPeriodic(FragmentsSoFar(i))
       /\ ev.progress = 100 <=> ev.type = "complete"

\* C29: every progress value carried by an event lies in 0..100; the
\* connect status of attempt k carries 10 + 5*(k-1) with k in 1..3, the
\* generating status 20, the status after every 10th fragment of an attempt
\* min(20 + 5*(n div 10), 90) for the n fragments so far, and an event
\* carries 100 exactly when it is the complete event.  Stated of the event
\* emitted last: every event is the last one in the state it was emitted in.
C29_ProgressValues ==
    /\ events # <<>> => ProgressAsSpecified(Len(events))
    /\ PeriodicWithinCap

\* an invocation emitted the status after the 10th fragment of an attempt
\* and ended with complete
C29_Witness_PeriodicStatus ==
    /\ pc = "done"
    /\ \E i \in 1..Len(events) :
          /\ events[i].type = "status" /\ events[i].message = ""
          /\ events[i].progress = 25
    /\ Last(events).progress = 100

\* ------------------------------------------------------------------ C30
\* C30: within one invocation the progress values of the events that carry
\* one never decrease from an event to a later one
C30_ProgressNeverDecreases ==
    \A i, j \in 1..Len(events) :
        (i < j /\ events[i].progress # NoProgress
               /\ events[j].progress # NoProgress) =>
            events[i].progress <= events[j].progress

\* ------------------------------------------------------------------ C24
\* both concurrent invocations were for the same description and have ended
\* after a successful cache write
BothWrote ==
    /\ \A i \in PeerIds : peers[i].pc = "done"
    /\ peers[1].description = peers[2].description
    /\ \A i \in PeerIds : \E n \in 1..Len(writeOrder) : writeOrder[n] = i

\* C24: after two concurrent invocations for one description have both
\* completed through the provider path and written, the entry of that
\* description holds the accumulated text of the invocation that wrote last,
\* whole and alone
C24_LastWriterWins ==
    BothWrote =>
        LET entry == store[_generate_cache_key(peers[1].description)]
        IN /\ JsonParses(entry)
           /\ JsonLoads(entry).analysis = peers[Last(writeOrder)].content_buffer

\* the two invocations overlapped (the second looked up the cache before
\* the first wrote), accumulated different texts and both wrote
C24_Witness_OverlappingWrites ==
    /\ BothWrote
    /\ writeOrder = <<2, 1>>
    /\ peers[1].content_buffer = <<"a", "b">>
    /\ peers[2].content_buffer = <<"b">>

\* ------------------------------------------------------------------ C25
\* C25: the connection of the process-wide analyzer is not open any more
\* once the process has shut down, and the connection a websocket handler
\* opened for its session is not open any more once that handler has ended
C25_ConnectionsReleased ==
    /\ bpc = "stopped" => redis_client # "connected"
    /\ wpc = "ended" => redis_client # "connected"

\* ------------------------------------------------------------------ C28
\* every cached analysis in the store has a time to live, at most the
\* configured one, and was last written less than that long ago
EntriesLive ==
    \A k \in AnalysisKeys(store) :
        /\ expires[k] \in 1..604800
        /\ now - writtenAt[k] < 604800

\* this step is a lookup that returns an entry
LookupHitStep == lookup' = "hit" /\ lookup # "hit"

\* C28: every cache write stores the value with the configured time to
\* live of 604800 seconds, replacing the old value and starting the time to
\* live afresh; no entry is without expiry; and a lookup never returns an
\* entry whose last write lies a time to live or more in the past
C28_EntriesExpire ==
    /\ []EntriesLive
    /\ [][/\ CacheWriteStep =>
               LET written == Last(writes')
               IN /\ store'[written.key] = written.value
                  /\ expires'[written.key] = 604800
                  /\ writtenAt'[written.key] = now'
          /\ LookupHitStep =>
               /\ lookupKey' \in DOMAIN store
               /\ now - writtenAt[lookupKey'] < 604800
               /\ cached_result' = <<JsonLoads(store[lookupKey'])>>]_vars

\* the entry was rewritten one second before it would have expired and is
\* still there when the time to live of the first write has elapsed
C28_Witness_RewriteRestartsTtl ==
    LET key == _generate_cache_key("d1")
    IN /\ invocations = 2
       /\ key \in DOMAIN store
       /\ writtenAt[key] = 604800 - 1
       /\ now = 604800
       /\ expires[key] = 604800 - 1

\* ------------------------------------------------------------------ C31
\* this step is the handler, waiting in its receive loop, finding the
\* client gone and unregistering it
HandlerObservesDisconnect ==
    /\ wpc = "receive"
    /\ socket = "closed"
    /\ active /\ ~active'

\* C31: when the handler, waiting for the next message, finds that the
\* client has disconnected, it leaves its receive loop and ends with the
\* client removed from the active connections
C31_DisconnectEndsHandler ==
    [][HandlerObservesDisconnect => wpc' = "ended"]_vars

\* ------------------------------------------------------------------ C32
\* the generator of an analysis has been started and has not ended
AnalysisInProgress == pc \notin {"idle", "done", "closed"}

\* C32: on a websocket connection an analysis is in progress only while
\* the handler streams it, and it is the analysis of the message received
\* last: no other message has been processed since.  The texts delivered
\* since that message are its own `Starting analysis` status with progress
\* 5 followed by events of that one invocation, in order.
C32_OneAnalysisPerConnection ==
    /\ AnalysisInProgress => wpc = "streaming"
    /\ wpc = "streaming" =>
          /\ message # <<>>
          /\ message[1].action = "analyze"
          /\ problem_title = Text(message[1].problem_title)
          /\ problem_description = Text(message[1].problem_description)
          /\ backend = message[1].backend
          /\ wseen <= Len(events)
          /\ replies # <<>>
          /\ JsonLoads(replies[1]).type = "status"
          /\ JsonLoads(replies[1]).progress = 5
          /\ JsonLoads(replies[1]).message =
                 "Starting analysis: {message.problem_title}"
          /\ Len(replies) <= wseen + 1
          /\ \A i \in 2..Len(replies) : replies[i] = JsonDumps(events[i - 1])

\* the second analysis of a connection is streaming and two of its events
\* have been delivered behind its own starting status
C32_Witness_SecondAnalysisStreaming ==
    /\ wpc = "streaming"
    /\ received = 2
    /\ invocations = 2
    /\ AnalysisInProgress
    /\ Len(replies) = 3

\* ------------------------------------------------------------------ C35
\* the texts that are JSON objects with an action other than "analyze"
PingOrUnknown == {text \in WsLocalTexts : IsMapping(text) /\ JsonLoads(text).action # "analyze"}

\* title and description of the object are within their length constraints
LengthsValid(o) ==
    /\ StrLen(o.problem_title) \in title_min_length..title_max_length
    /\ StrLen(o.problem_description) \in
          description_min_length..description_max_length

\* the one text delivered for the message is this status / this error
RepliedStatus(msg, progress) ==
    /\ Len(replies') = 1
    /\ JsonLoads(replies'[1]).type = "status"
    /\ JsonLoads(replies'[1]).message = msg
    /\ JsonLoads(replies'[1]).progress = progress
RepliedError(code) ==
    /\ Len(replies') = 1
    /\ JsonLoads(replies'[1]).type = "error"
    /\ JsonLoads(replies'[1]).error_code = code

\* C35: validation precedes the dispatch on the action: a message with
\* the action "ping" or an unknown action never reaches the core and is
\* answered by exactly one event; that event is the status "pong" with
\* progress 0 only for a ping whose title and description satisfy the
\* length constraints, and it is the error VALIDATION_ERROR whenever title
\* or description does not satisfy them
C35_ValidationBeforeDispatch ==
    [][received' # received =>
        \A text \in PingOrUnknown :
          WsReceive(text, "flaky") =>
            /\ UNCHANGED analyzerVars
            /\ Len(replies') = 1
            /\ RepliedStatus("pong", 0) =>
                  (JsonLoads(text).action = "ping" /\ LengthsValid(JsonLoads(text)))
            /\ RepliedError("UNKNOWN_ACTION") => LengthsValid(JsonLoads(text))
            /\ ~LengthsValid(JsonLoads(text)) => RepliedError("VALIDATION_ERROR")
            /\ (LengthsValid(JsonLoads(text)) /\ IsBackendType(JsonLoads(text).backend)) =>
                  IF JsonLoads(text).action = "ping"
                    THEN RepliedStatus("pong", 0)
                    ELSE RepliedError("UNKNOWN_ACTION")]_vars

\* a ping with valid title and description has just been answered
C35_Witness_PongAfterValidPing ==
    /\ wpc = "receive"
    /\ received > 0
    /\ message = <<>>
    /\ replies = <<JsonDumps(StatusEvent("pong", NoArg, 0))>>

\* ------------------------------------------------------------------ C33
\* the websocket registered under the handler's client id is its own
Registered(c) ==
    /\ IdOf(c) \in DOMAIN active_connections
    /\ active_connections[IdOf(c)] = c

\* C33: every text a handler passes to send_message is written to the
\* websocket of its own connection only, no two running handlers have the
\* same client id, and every entry of active_connections is the websocket
\* of a running handler under that handler's client id
C33_EventsStayOnOwnSocket ==
    /\ \A d \in delivered : d[1] = d[2]
    /\ \A c1, c2 \in DOMAIN handlers :
          (c1 # c2 /\ HandlerRunning(c1) /\ HandlerRunning(c2)) => IdOf(c1) # IdOf(c2)
    /\ \A k \in DOMAIN active_connections :
          /\ HandlerRunning(active_connections[k])
          /\ IdOf(active_connections[k]) = k

\* two connections are registered at once, the later one at the address
\* of a connection that has ended, and each of the three got its own text
C33_Witness_ConcurrentConnections ==
    /\ Len(handlers) = 3
    /\ ~HandlerRunning(1)
    /\ handlers[3].address = handlers[1].address
    /\ Registered(2) /\ Registered(3)
    /\ delivered = {<<1, 1>>, <<2, 2>>, <<3, 3>>}

\* ------------------------------------------------------------------ C34
\* this step is a send_message call of handler c
SendStep(c) == handlers'[c].sends = handlers[c].sends + 1

\* C34: a client is in active_connections exactly from its connect until
\* its handler's disconnect or its first failed send; a failed send
\* unregisters the client and the handler goes on; a send for a client
\* that is not registered writes to no socket and changes nothing; a
\* disconnect of a client that is not registered leaves the map as it is
C34_RegisteredFromConnectToRelease ==
    /\ [](\A c \in DOMAIN handlers : Registered(c) <=> handlers[c].hist = "in")
    /\ [][\A c \in DOMAIN handlers :
            /\ (SendStep(c) /\ handlers'[c].last = "failed") =>
                  /\ Registered(c)
                  /\ IdOf(c) \notin DOMAIN active_connections'
                  /\ handlers'[c].hpc = "loop"
            /\ (SendStep(c) /\ ~Registered(c)) =>
                  /\ handlers'[c].attempts = handlers[c].attempts
                  /\ UNCHANGED <<active_connections, delivered>>
            /\ (handlers[c].hpc # "ended" /\ handlers'[c].hpc = "ended"
                   /\ ~Registered(c)) =>
                  UNCHANGED active_connections]_vars

\* after a failed send the handler has called send_message again: its
\* client is not registered, the socket was written to once
C34_Witness_SendAfterFailedSend ==
    \E c \in DOMAIN handlers :
        /\ handlers[c].hist = "out"
        /\ handlers[c].last = "noop"
        /\ handlers[c].attempts = 1
        /\ handlers[c].sends = 2
        /\ handlers[c].hpc = "loop"
        /\ ~Registered(c)

\* ------------------------------------------------------------------ C36
\* task t's provider call returns in this step
TaskFinishes(t) == tasks[t].tpc = "awaiting" /\ tasks'[t].tpc = "done"

\* the session of task t after this step
SessionAfter(t) == analysis_sessions_db'[tasks[t].session_id]

\* the sessions whose task is waiting for the provider
AwaitedSessions ==
    {tasks[t].session_id : t \in {u \in DOMAIN tasks : tasks[u].tpc = "awaiting"}}

\* C36: a session is in status processing only while its task is waiting
\* for the provider; otherwise it is completed or failed and completed_at
\* is set.  When the provider call returns, the session becomes completed
\* only if the provider reported success and the problem record is still
\* stored, and then the problem's status is completed and its result is
\* set.
C36_SessionsReachTerminalStatus ==
    /\ [](\A sid \in DOMAIN analysis_sessions_db :
            LET session == analysis_sessions_db[sid] IN
            /\ session.status \in {"processing", "completed", "failed"}
            /\ session.status = "processing" <=> sid \in AwaitedSessions
            /\ session.status = "processing" <=> session.completed_at = PyNone)
    /\ [][\A t \in DOMAIN tasks :
            TaskFinishes(t) =>
              /\ SessionAfter(t).status \in {"completed", "failed"}
              /\ SessionAfter(t).completed_at # PyNone
              /\ ProviderReturns(t, FALSE) => SessionAfter(t).status = "failed"
              /\ SessionAfter(t).status = "completed" =>
                    /\ tasks[t].problem_id \in DOMAIN problems_db
                    /\ tasks[t].problem_id \in DOMAIN problems_db'
                    /\ problems_db'[tasks[t].problem_id].analysis_status = "completed"
                    /\ problems_db'[tasks[t].problem_id].analysis_result # PyNone]_vars

\* one session completed and one failed because the provider reported a
\* failure; no session is processing
C36_Witness_CompletedAndFailed ==
    /\ DOMAIN analysis_sessions_db = {1, 2}
    /\ analysis_sessions_db[1].status = "completed"
    /\ analysis_sessions_db[2].status = "failed"
    /\ analysis_sessions_db[2].error_message = "provider error"
    /\ analysis_sessions_db[2].completed_at # PyNone

\* ------------------------------------------------------------------ C37
\* C37: when the provider call of a task returns and the task's problem is
\* not stored any more, the task ends, the problem is still not stored and
\* the task's session is failed
C37_DeletedProblemStaysDeleted ==
    [][\A t \in DOMAIN tasks :
          (TaskFinishes(t) /\ tasks[t].problem_id \notin DOMAIN problems_db) =>
            /\ tasks'[t] = DoneTask
            /\ problems_db' = problems_db
            /\ SessionAfter(t).status = "failed"
            /\ SessionAfter(t).completed_at # PyNone]_vars

\* the problem of a session was deleted while its task waited: the task
\* has ended on the KeyError, the id is not stored
C37_Witness_DeletedWhileAwaiting ==
    \E sid \in DOMAIN analysis_sessions_db :
        /\ analysis_sessions_db[sid].error_message = "KeyError"
        /\ analysis_sessions_db[sid].status = "failed"
        /\ analysis_sessions_db[sid].problem_id \notin DOMAIN problems_db
        /\ \A t \in DOMAIN tasks : tasks[t] = DoneTask

\* ------------------------------------------------------------------ C38
\* this step is a create_problem call
CreateStep == Len(assigned') = Len(assigned) + 1

\* C38: every stored problem has one of the four statuses and, when its
\* status is completed, a result; a problem is created pending without a
\* result
C38_StatusAndResult ==
    /\ [](\A id \in DOMAIN problems_db :
            /\ problems_db[id].analysis_status \in AnalysisStatus
            /\ problems_db[id].analysis_status = "completed" =>
                  problems_db[id].analysis_result # PyNone)
    /\ [][CreateStep =>
            /\ problems_db'[Last(assigned')].analysis_status = "pending"
            /\ problems_db'[Last(assigned')].analysis_result = PyNone]_vars

\* a problem that was updated is completed while a second task on it is
\* still waiting for the provider
C38_Witness_CompletedBesideRunningTask ==
    \E id \in DOMAIN problems_db :
        /\ problems_db[id].analysis_status = "completed"
        /\ problems_db[id].title = UpdatedTitle
        /\ \E t \in DOMAIN tasks :
              tasks[t].tpc = "awaiting" /\ tasks[t].problem_id = id

\* ------------------------------------------------------------------ C39
\* C39: the two counters never decrease; create_problem returns an id
\* greater than every id it returned before, a new session gets an id
\* greater than every session id so far, and no stored problem or session
\* has an id above its counter
C39_IdsOnlyIncrease ==
    /\ [](/\ \A id \in DOMAIN problems_db : id <= problem_counter
          /\ \A sid \in DOMAIN analysis_sessions_db : sid <= session_counter
          /\ \A i, j \in DOMAIN assigned : i < j => assigned[i] < assigned[j])
    /\ [][/\ problem_counter' >= problem_counter
          /\ session_counter' >= session_counter
          /\ CreateStep =>
                /\ \A i \in DOMAIN assigned : assigned[i] < Last(assigned')
                /\ Last(assigned') \notin DOMAIN problems_db
          /\ \A sid \in DOMAIN analysis_sessions_db' \ DOMAIN analysis_sessions_db :
                \A old \in DOMAIN analysis_sessions_db : old < sid]_vars

\* the first problem was deleted before the second was created; two
\* sessions exist
C39_Witness_CreateAfterDelete ==
    /\ assigned = <<1, 2>>
    /\ DOMAIN problems_db = {2}
    /\ DOMAIN analysis_sessions_db = {1, 2}
    /\ analysis_sessions_db[1].problem_id = 1

\* ------------------------------------------------------------------ C40
\* a step of the analyze trigger that is visible: it changes the answer of
\* the trigger or adds a task
TriggerStep == presponse' # presponse \/ Len(tasks') > Len(tasks)

\* C40: the analyze trigger answers 404 for an id that is not stored, 503
\* for a stored id when no provider is configured, 400 for a stored id and
\* a provider that is not among the configured ones; in these cases no
\* task is added, no session is created and no problem changes; a task is
\* added only for a stored id and a configured provider
C40_TriggerChecksBeforeStart ==
    [][TriggerStep =>
        \A id \in ProblemIds, provider \in AllProviders :
          analyze_problem(id, provider) =>
            /\ id \notin DOMAIN problems_db => presponse' = <<404>>
            /\ (id \in DOMAIN problems_db /\ providers = {}) =>
                  presponse' = <<503>>
            /\ (id \in DOMAIN problems_db /\ providers # {}
                   /\ provider \notin providers) => presponse' = <<400>>
            /\ presponse' \in {<<404>>, <<503>>, <<400>>} =>
                  UNCHANGED <<tasks, analysis_sessions_db, session_counter,
                              problems_db>>
            /\ tasks' # tasks =>
                  (id \in DOMAIN problems_db /\ provider \in providers)]_vars

\* a request for a provider that is not configured was answered 400 after
\* an analysis of the same problem had been started
C40_Witness_UnavailableProviderRejected ==
    /\ presponse = <<400>>
    /\ Len(tasks) = 1
    /\ tasks[1].tpc = "awaiting"
    /\ problems_db[1].analysis_status = "processing"

====
